---- MODULE Spec2Model ----
(***************************************************************************)
(* Model of the fare CLI's init pipeline (src/commands/init.ts) and of    *)
(* the Fly.io provisioning helpers it drives (src/utils/fly.ts).          *)
(*                                                                         *)
(* Strings that the code concatenates or searches are sequences of        *)
(* tokens, so that `${app}-db` and line.includes(dbName) are computed;    *)
(* the empty string is << >>.  Strings that are only compared (statuses,  *)
(* cluster ids, error kinds, task states) are TLA+ strings.               *)
(***************************************************************************)
EXTENDS Integers, Sequences, FiniteSets, TLC

\* ------------------------------------------------------------------ bounds
\* Longest `fly mpg list` table (data rows) the platform answers with.
MaxRows == 2
\* Most keys a secrets object passed to setSecrets has.
MaxKeys == 2
\* Most name parts a casino name has after its first.
MaxNameLen == 2

\* ------------------------------------------------------------ JS helpers
Empty == << >>
Undefined == <<"<undefined>">>

\* a || b on strings: the first operand unless it is the empty string
OrElse(a, b) == IF a # Empty THEN a ELSE b

\* haystack.includes(needle) on token sequences
Includes(hay, needle) ==
  \E k \in 0..(Len(hay) - Len(needle)) :
     \A j \in 1..Len(needle) : hay[k + j] = needle[j]

\* ------------------------------------------------------- subprocess gateway
\* What a spawned process can do: fail to spawn ('error' event), be ended by
\* a signal (close with code null), or exit with a code.
CmdOutcomes(outs, errs) ==
  [raised : {FALSE}, signalled : {FALSE}, code : {0, 1}, stdout : outs, stderr : errs]
    \cup [raised : {FALSE}, signalled : {TRUE}, code : {0}, stdout : outs, stderr : errs]
    \cup [raised : {TRUE}, signalled : {FALSE}, code : {0}, stdout : {Empty}, stderr : {Empty}]

\* exitCode: code || 0  -- a null code (signal) becomes 0
ExitCode(r) == IF r.signalled THEN 0 ELSE r.code

\* the promise of executeFlyCommand rejects only on the 'error' event
Rejects(r) == r.raised

\* stderr || stdout || 'Unknown error'
ErrorMsg(r) == OrElse(r.stderr, OrElse(r.stdout, <<"Unknown error">>))

StdErrs == {Empty, <<"remote stderr">>}
StdOuts == {Empty, <<"remote stdout">>}

\* ------------------------------------------------------------------ naming
CasinoName == <<"demo">>
OrgSlug == <<"personal">>

generateFlyAppName(casinoName) == <<"fare-">> \o casinoName
getCasinoPath(casinoName) == <<"~/.fare-casinos/">> \o casinoName

DbName(appName) == appName \o <<"-db">>
RedisName(appName) == appName \o <<"-redis">>
\* a storage name built with the suffix of the database
TigrisNameAsDb(appName) == appName \o <<"-db">>
TigrisName(appName) == appName \o <<"-storage">>

FlyAppName == generateFlyAppName(CasinoName)

\* ------------------------------------------------------------ the pipeline
NumTasks == 11
Tasks == 1..NumTasks

TClone == 1
TInstall == 2
TPrisma == 3
TBuild == 4
TApp == 5
TRedis == 6
TTigris == 7
TPostgres == 8
TConfig == 9
TSecrets == 10
TDeploy == 11

TaskStates == {"pending", "running", "done", "failed"}

CtxFields == {"casinoPath", "redisUrl", "tigrisBucket", "postgresUrl",
              "databasePassword", "postgresPassword"}

VARIABLES
  runState,     \* "running" while tasks.run is pending, then "ok" or "failed"
  taskState,    \* Listr's state of each task
  ctx,          \* the InitContext threaded through the tasks
  err,          \* the error the failing task threw
  remote,       \* names of the resources that exist on the platform
  localDir,     \* the casino directory exists
  pgpc,         \* provisionPostgres: the call it is awaiting
  i,            \* provisionPostgres: loop counter
  clusterReady, \* provisionPostgres: local
  clusterId,    \* provisionPostgres: local
  queries,      \* history: number of `mpg list` status queries issued
  slept,        \* history: total ms spent in setTimeout
  readyAt,      \* history: attempt at which 'ready' was observed (0: never)
  lastStatus,   \* history: status the last status query showed ("": none)
  lastQuery,    \* history: how the last status query ended
  lastId,       \* history: the cluster id the last status query showed
  callFailed,   \* history: the phases whose external call failed, and how
  pre,          \* history: names that existed on the platform before the run
  files,        \* files written into the casino directory
  appSecrets,   \* the app's secrets on the platform: a set of key/value pairs
  lastBatch,    \* history: the secretsInput of the last setSecrets mutation
  exitCode,     \* exit code of the CLI process (StillRunning until it ends)
  printed,      \* the error the CLI entry point printed
  command,      \* the command the CLI was started with
  stepState,    \* deploy, cleanup: Listr's state of each task of the command
  found,        \* cleanup: what the four scans found
  lookedUp,     \* history: the lookups of the current task, in order
  mutationSent, \* history: the current task has issued its mutation
  migrated,     \* history: runPrismaMigrations has run
  stage,        \* where the command is: before, in or past its task list
  checks,       \* init: what the checks before the task list established
  flyCalls,     \* cleanup: number of fly commands issued
  scan,         \* cleanup: state of each of the four concurrent scans
  built,        \* deploy: the builds buildProject ran, and how each ended
  calls,        \* setSecrets alone: the secrets objects of successive calls
  ncalls,       \* setSecrets alone: how many of the calls have returned
  casino,       \* naming alone: the casino name
  named,        \* naming alone: the resource names computed so far
  service,      \* logs: the process name given on the command line
  trail,        \* logs: the remote calls issued so far, in order
  verdict,      \* validation alone: what validateCasinoName answered
  cloners,      \* clones alone: where each of the two invocations stands
  madeBy,       \* clones alone: the invocation whose git made the directory
  rerun         \* init: this run follows a run that failed after its clone

vars == <<runState, taskState, ctx, err, remote, localDir, pgpc, i,
          clusterReady, clusterId, queries, slept, readyAt, lastStatus,
          lastQuery, callFailed, pre, files, appSecrets, lastBatch,
          exitCode, printed, command, stepState, found, calls, ncalls,
          casino, named, lastId, lookedUp, mutationSent, migrated, stage,
          checks, flyCalls, scan, built, service, trail, verdict, cloners,
          madeBy, rerun>>

\* what the run leaves behind outside the platform's resource list
outVars == <<files, appSecrets, lastBatch>>

\* the CLI entry point's own state, and the history of what pre-existed
\* state of the functions exercised on their own
lateVars == <<service, trail, verdict, cloners, madeBy, rerun>>
sideVars == <<calls, ncalls, casino, named, lateVars>>

\* what the command did before its task list, and what ran inside the tasks
startVars == <<migrated, stage, checks, flyCalls, scan, built>>

\* the lookups and the mutation of the GraphQL function that ran last
callVars == <<lookedUp, mutationSent>>

restVars == <<pre, exitCode, printed, command, stepState, found, sideVars, startVars>>

pgVars == <<pgpc, i, clusterReady, clusterId, queries, slept, readyAt,
            lastStatus, lastQuery, lastId, callFailed>>

NoError == [task |-> 0, kind |-> "none", text |-> Empty]

\* the process has not ended
StillRunning == -1

NothingPrinted == [kind |-> "none", text |-> Empty]

\* the resources `fare init` creates for the casino
ResourceNames == {FlyAppName, RedisName(FlyAppName), TigrisName(FlyAppName),
                  DbName(FlyAppName)}

\* no task has run
PipelineFresh ==
  /\ runState = "running"
  /\ taskState = [t \in Tasks |-> "pending"]
  /\ ctx = [f \in CtxFields |-> Undefined]
  /\ err = NoError
  /\ remote = pre
  /\ pgpc = "idle"
  /\ i = 0
  /\ clusterReady = FALSE
  /\ clusterId = ""
  /\ queries = 0
  /\ slept = 0
  /\ readyAt = 0
  /\ lastStatus = ""
  /\ lastQuery = "none"
  /\ lastId = ""
  /\ callFailed = {}
  /\ lookedUp = << >>
  /\ mutationSent = FALSE
  /\ migrated = FALSE
  /\ built = << >>
  /\ files = {}
  /\ appSecrets = {}
  /\ lastBatch = << >>
  /\ exitCode = StillRunning
  /\ printed = NothingPrinted

\* initCommand has built the context and the task list
PipelineInit ==
  /\ PipelineFresh
  /\ localDir = FALSE

\* no logs command, no validation, no clone on its own, no earlier run
NoLate ==
  /\ service = "undefined"
  /\ trail = << >>
  /\ verdict = "?"
  /\ cloners = << >>
  /\ madeBy = 0
  /\ rerun = FALSE

NoSide ==
  /\ calls = << >>
  /\ ncalls = 0
  /\ casino = CasinoName
  /\ named = {}
  /\ NoLate

\* what cleanup's scans report when they did not run
NoScan == [apps |-> << >>, clusters |-> << >>, redis |-> << >>, tigris |-> << >>]

\* the four lookups cleanup starts together
ScanKinds == {"apps", "clusters", "redis", "tigris"}
NotScanned == [k \in ScanKinds |-> "none"]

\* what the command's checks and prompts have established: "?" until asked
Unchecked == [valid |-> "?", free |-> "?", cli |-> "?", auth |-> "?", confirmed |-> "?"]

\* initCommand got past the checks that precede its task list
ChecksPassed == [Unchecked EXCEPT !.valid = "yes", !.free = "yes", !.cli = "yes",
                                  !.auth = "yes"]

\* `fare init <casino-name>`: an earlier run, or anyone else, may have left
\* resources of these names
Init ==
  /\ command = "init"
  /\ stage = "tasks"
  /\ checks = ChecksPassed
  /\ flyCalls = 0
  /\ scan = NotScanned
  /\ stepState = << >>
  /\ found = NoScan
  /\ pre \in SUBSET ResourceNames
  /\ PipelineInit
  /\ NoSide

\* ------------------------------------------------------------ task runner
\* new Listr([...]) with default options: concurrent false, exitOnError true.
Settled(u) == taskState[u] \in {"done", "failed"}

\* concurrent: true -- a task may start while earlier ones are still running
StartsConcurrently(t) == TRUE

\* concurrent: false -- a task starts when every earlier task has settled
Sequential(t) == \A u \in 1..(t - 1) : Settled(u)

\* exitOnError: false -- later tasks still run after a failure
ContinueOnError == FALSE

\* exitOnError: true -- after a task failed no further task is started
ExitOnError == \E u \in Tasks : taskState[u] = "failed"

\* a task body that stores a default in the context before its await
CtxAfterThrowPartial(c, t) ==
  IF t = TPostgres
    THEN [c EXCEPT !["postgresUrl"] = <<"postgresql://placeholder">>]
    ELSE c

\* every task body assigns to ctx only after its await returned, so a
\* throwing task leaves the context as it found it
CtxAfterThrow(c, t) == c

\* a task body that builds a new context from what it assigns
TaskWritesReplace(c, writes) ==
  [f \in CtxFields |-> IF f \in DOMAIN writes THEN writes[f] ELSE Undefined]

\* ctx.<field> = <value> for the fields the task body assigns
TaskWrites(c, writes) ==
  [f \in CtxFields |-> IF f \in DOMAIN writes THEN writes[f] ELSE c[f]]

Throw(t, kind, text) ==
  /\ taskState' = [taskState EXCEPT ![t] = "failed"]
  /\ err' = [task |-> t, kind |-> kind, text |-> text]
  /\ ctx' = CtxAfterThrow(ctx, t)

Return(t, writes) ==
  /\ taskState' = [taskState EXCEPT ![t] = "done"]
  /\ ctx' = TaskWrites(ctx, writes)
  /\ err' = err

NoWrites == [f \in {} |-> Undefined]

\* Listr invokes the next task's function.  The locals of provisionPostgres
\* and the history of its calls belong to the task that runs or settled last:
\* starting a task starts them afresh.
StartTask(t) ==
  /\ command = "init" /\ stage = "tasks"
  /\ runState = "running"
  /\ taskState[t] = "pending"
  /\ Sequential(t)
  /\ ~ExitOnError
  /\ taskState' = [taskState EXCEPT ![t] = "running"]
  /\ pgpc' = IF t = TPostgres THEN "create" ELSE "idle"
  /\ i' = 0 /\ clusterReady' = FALSE /\ clusterId' = ""
  /\ queries' = 0 /\ slept' = 0 /\ readyAt' = 0
  /\ lastStatus' = "" /\ lastQuery' = "none" /\ callFailed' = {}
  /\ lastId' = ""
  /\ lookedUp' = << >> /\ mutationSent' = FALSE
  /\ UNCHANGED <<runState, ctx, err, remote, localDir>>
  /\ UNCHANGED <<outVars, restVars>>

\* a catch block that tears down what the run created
AbortEffectsRollback(r) == {}

\* catch (error) { console.error(...); throw error; } -- nothing is undone
AbortEffects(r) == r

\* tasks.run rejected: the catch block of initCommand
RunRejected ==
  /\ runState = "running"
  /\ \E u \in Tasks : taskState[u] = "failed"
  /\ \A u \in Tasks : taskState[u] # "running"
  /\ runState' = "failed"
  /\ remote' = AbortEffects(remote)
  /\ UNCHANGED <<taskState, ctx, err, localDir, pgVars>>
  /\ UNCHANGED <<outVars, restVars>>
  /\ UNCHANGED callVars

\* tasks.run resolved: getAppInfo and the display run inside the same try.
\* getAppInfo answers defaults when `fly status` exits non-zero or prints no
\* JSON, but it awaits executeFlyCommand, whose rejection reaches the catch.
RunResolved(r) ==
  /\ runState = "running"
  /\ \A u \in Tasks : taskState[u] = "done"
  /\ IF Rejects(r)
       THEN /\ runState' = "failed"
            /\ err' = [task |-> 0, kind |-> "SpawnError", text |-> Empty]
            /\ remote' = AbortEffects(remote)
       ELSE /\ runState' = "ok"
            /\ UNCHANGED <<err, remote>>
  /\ UNCHANGED <<taskState, ctx, localDir, pgVars>>
  /\ UNCHANGED <<outVars, restVars>>
  /\ UNCHANGED callVars

\* ------------------------------------------------------------- local tasks
\* casinoExists(name): fs.access of the casino's directory
casinoExistsNever(dir) == FALSE

casinoExists(dir) == dir

\* a cleanup that removes nothing
RemovedNever(dir, rmOk) == dir

\* try { await fs.rm(casinoPath, { recursive: true, force: true }) } catch {}
\* is there a directory afterwards: rmOk = the removal did not throw
Removed(dir, rmOk) == dir /\ ~rmOk

\* cloneCasinoBackend: partial = git left a directory behind before failing,
\* rmOk = the fs.rm of the cleanup worked (its failure is swallowed)
Clone(r, partial, rmOk) ==
  /\ runState = "running" /\ taskState[TClone] = "running"
  /\ IF casinoExists(localDir)
       THEN Throw(TClone, "AlreadyExists", Empty) /\ UNCHANGED localDir
     ELSE IF Rejects(r)
       THEN Throw(TClone, "GitStart", Empty) /\ UNCHANGED localDir
     ELSE IF ~r.signalled /\ r.code = 0
       THEN /\ Return(TClone, [f \in {"casinoPath"} |-> getCasinoPath(CasinoName)])
            /\ localDir' = TRUE
     ELSE /\ Throw(TClone, "CloneFailed", r.stderr)
          /\ localDir' = Removed(partial, rmOk)
  /\ UNCHANGED <<runState, remote, pgVars>>
  /\ UNCHANGED <<outVars, restVars>>
  /\ UNCHANGED callVars

\* executeNpmCommand resolves on 'close' and has no 'error' handler
NpmOutcomes == {r \in CmdOutcomes(StdOuts, StdErrs) : ~r.raised}

Install(r) ==
  /\ runState = "running" /\ taskState[TInstall] = "running"
  /\ IF ExitCode(r) # 0
       THEN Throw(TInstall, "InstallFailed", r.stderr)
       ELSE Return(TInstall, NoWrites)
  /\ UNCHANGED <<runState, remote, localDir, pgVars>>
  /\ UNCHANGED <<outVars, restVars>>
  /\ UNCHANGED callVars

Prisma(r) ==
  /\ runState = "running" /\ taskState[TPrisma] = "running"
  /\ IF ExitCode(r) # 0
       THEN Throw(TPrisma, "PrismaFailed", r.stderr)
       ELSE Return(TPrisma, NoWrites)
  /\ UNCHANGED <<runState, remote, localDir, pgVars>>
  /\ UNCHANGED <<outVars, restVars>>
  /\ UNCHANGED callVars

BuildOrder == <<"packages/utils", "packages/db", "packages/solana",
                "apps/api", "apps/ws", "apps/processor">>

\* how an `npm run build` can end
NpmHows == {"ok", "exit", "signal"}

\* result.exitCode of executeNpmCommand for a build that ended that way
NpmExit(how) ==
  ExitCode([raised |-> FALSE, signalled |-> (how = "signal"),
            code |-> IF how = "exit" THEN 1 ELSE 0, stdout |-> Empty, stderr |-> Empty])

\* how the build of each package would end, in the order of BuildOrder
BuildOutcomes == [1..Len(BuildOrder) -> NpmHows]

\* if (result.exitCode !== 0) throw new Error(`Failed to build ${pkg}`):
\* position of the build buildProject throws at, 0 if it returns
FirstBad(outs) ==
  LET bad == {k \in DOMAIN outs : NpmExit(outs[k]) # 0}
  IN IF bad = {} THEN 0 ELSE CHOOSE k \in bad : \A h \in bad : k <= h

\* the builds buildProject ran: each package up to the one it throws at
Built(outs) ==
  [k \in 1..(IF FirstBad(outs) = 0 THEN Len(outs) ELSE FirstBad(outs)) |->
     [pkg |-> BuildOrder[k], how |-> outs[k]]]

\* buildProject
Build(outs) ==
  /\ runState = "running" /\ taskState[TBuild] = "running"
  /\ IF FirstBad(outs) # 0
       THEN Throw(TBuild, "BuildFailed", <<BuildOrder[FirstBad(outs)]>>)
       ELSE Return(TBuild, NoWrites)
  /\ UNCHANGED <<runState, remote, localDir, pgVars>>
  /\ UNCHANGED <<outVars, restVars>>
  /\ UNCHANGED callVars

\* ----------------------------------------------------------- GraphQL tasks
\* A lookup through withFlyGraphQL throws, finds nothing, or finds the entity.
Lookups == {"throws", "missing", "found"}
\* A mutation throws (took: the platform applied it all the same), returns
\* without an add-on, or returns the add-on.
Mutations == {"throws", "empty", "ok"}

\* The platform refuses to create a resource under a name that is taken: the
\* mutation throws, the add-on comes back empty, `fly mpg create` fails.
Refused(name) == name \in remote

\* a function that sends its mutation whatever the lookup found
NotFoundUnchecked(l) == FALSE

\* if (!org) throw new Error(...), if (!appData.data.app) throw new Error(...)
NotFound(l) == l = "missing"

Passed(l) == l # "throws" /\ ~NotFound(l)

\* the lookups a function performed: each one is awaited, and its result
\* tested, before the next one is started
RECURSIVE Performed(_)
Performed(ls) ==
  IF ls = << >> THEN << >>
  ELSE IF Passed(Head(ls).how) THEN <<Head(ls)>> \o Performed(Tail(ls))
  ELSE <<Head(ls)>>

OrgLookup(fn, org) == [fn |-> fn, what |-> "org", how |-> org]
AppLookup(fn, app) == [fn |-> fn, what |-> "app", how |-> app]

\* createFlyApp
CreateApp(org, create, took) ==
  /\ runState = "running" /\ taskState[TApp] = "running"
  /\ Refused(FlyAppName) => create = "throws"
  /\ lookedUp' = Performed(<<OrgLookup("createFlyApp", org)>>)
  /\ IF org = "throws"
       THEN /\ Throw(TApp, "CreateAppFailed", <<"graphql error">>)
            /\ UNCHANGED <<remote, mutationSent>>
     ELSE IF NotFound(org)
       THEN /\ Throw(TApp, "CreateAppFailed", <<"Organization not found">>)
            /\ UNCHANGED <<remote, mutationSent>>
     ELSE IF create = "throws"
       THEN /\ Throw(TApp, "CreateAppFailed", <<"graphql error">>)
            /\ mutationSent' = TRUE
            /\ remote' = IF took THEN remote \cup {FlyAppName} ELSE remote
     ELSE /\ Return(TApp, NoWrites)
          /\ mutationSent' = TRUE
          /\ remote' = remote \cup {FlyAppName}
  /\ UNCHANGED <<runState, localDir, pgVars>>
  /\ UNCHANGED <<outVars, restVars>>

PublicUrls == {Empty, <<"rediss://upstash">>}

\* provisionRedis
Redis(org, app, create, took, publicUrl) ==
  /\ runState = "running" /\ taskState[TRedis] = "running"
  /\ Refused(RedisName(FlyAppName)) => create # "ok"
  /\ lookedUp' = Performed(<<OrgLookup("provisionRedis", org), AppLookup("provisionRedis", app)>>)
  /\ IF org = "throws"
       THEN /\ Throw(TRedis, "RedisFailed", <<"graphql error">>)
            /\ UNCHANGED <<remote, mutationSent>>
     ELSE IF NotFound(org)
       THEN /\ Throw(TRedis, "RedisFailed", <<"Organization not found">>)
            /\ UNCHANGED <<remote, mutationSent>>
     ELSE IF app = "throws"
       THEN /\ Throw(TRedis, "RedisFailed", <<"graphql error">>)
            /\ UNCHANGED <<remote, mutationSent>>
     ELSE IF NotFound(app)
       THEN /\ Throw(TRedis, "RedisFailed", <<"App not found">>)
            /\ UNCHANGED <<remote, mutationSent>>
     ELSE IF create = "throws"
       THEN /\ Throw(TRedis, "RedisFailed", <<"graphql error">>)
            /\ mutationSent' = TRUE
            /\ remote' = IF took THEN remote \cup {RedisName(FlyAppName)} ELSE remote
     ELSE IF create = "empty"
       THEN /\ Throw(TRedis, "RedisFailed", <<"Failed to create Redis add-on">>)
            /\ mutationSent' = TRUE
            /\ remote' = IF took THEN remote \cup {RedisName(FlyAppName)} ELSE remote
     ELSE /\ Return(TRedis, [f \in {"redisUrl"} |->
                 OrElse(publicUrl, <<"redis://">> \o RedisName(FlyAppName)
                                      \o <<".internal:6379">>)])
          /\ mutationSent' = TRUE
          /\ remote' = remote \cup {RedisName(FlyAppName)}
  /\ UNCHANGED <<runState, localDir, pgVars>>
  /\ UNCHANGED <<outVars, restVars>>

\* addOn.environment of the created Tigris add-on: the names of the keys
TigrisEnvs == {{}, {"AWS_ACCESS_KEY_ID", "AWS_SECRET_ACCESS_KEY", "BUCKET_NAME"}}

\* return { bucketName: tigrisName, credentials: addOn.environment || {} }
TigrisResult(appName, env) == [bucketName |-> TigrisName(appName), credentials |-> env]

\* const { bucketName } = await provisionTigris(...); ctx.config.tigrisBucket = bucketName
TigrisTaskWrites(res) == [f \in {"tigrisBucket"} |-> res.bucketName]

\* provisionTigris
Tigris(org, app, create, took, env) ==
  /\ runState = "running" /\ taskState[TTigris] = "running"
  /\ Refused(TigrisName(FlyAppName)) => create # "ok"
  /\ lookedUp' = Performed(<<OrgLookup("provisionTigris", org), AppLookup("provisionTigris", app)>>)
  /\ IF org = "throws"
       THEN /\ Throw(TTigris, "TigrisFailed", <<"graphql error">>)
            /\ UNCHANGED <<remote, mutationSent>>
     ELSE IF NotFound(org)
       THEN /\ Throw(TTigris, "TigrisFailed", <<"Organization not found">>)
            /\ UNCHANGED <<remote, mutationSent>>
     ELSE IF app = "throws"
       THEN /\ Throw(TTigris, "TigrisFailed", <<"graphql error">>)
            /\ UNCHANGED <<remote, mutationSent>>
     ELSE IF NotFound(app)
       THEN /\ Throw(TTigris, "TigrisFailed", <<"App not found">>)
            /\ UNCHANGED <<remote, mutationSent>>
     ELSE IF create = "throws"
       THEN /\ Throw(TTigris, "TigrisFailed", <<"graphql error">>)
            /\ mutationSent' = TRUE
            /\ remote' = IF took THEN remote \cup {TigrisName(FlyAppName)} ELSE remote
     ELSE IF create = "empty"
       THEN /\ Throw(TTigris, "TigrisFailed", <<"Failed to create Tigris storage">>)
            /\ mutationSent' = TRUE
            /\ remote' = IF took THEN remote \cup {TigrisName(FlyAppName)} ELSE remote
     ELSE /\ Return(TTigris, TigrisTaskWrites(TigrisResult(FlyAppName, env)))
          /\ mutationSent' = TRUE
          /\ remote' = remote \cup {TigrisName(FlyAppName)}
  /\ UNCHANGED <<runState, localDir, pgVars>>
  /\ UNCHANGED <<outVars, restVars>>

\* the metadata file and the environment file of the casino directory
ConfigFile == "fare.config.json"
EnvFile == ".env"

saveCasinoConfig(fs) == fs \cup {ConfigFile}
generateEnvFile(fs) == fs \cup {EnvFile}

\* a task body that has written both files before it learns of a failure
FilesAfterConfigTaskEager(fs, saved, generated) ==
  generateEnvFile(saveCasinoConfig(fs))

\* await saveCasinoConfig(...); await generateEnvFile(...): the second runs
\* only if the first returned
FilesAfterConfigTask(fs, saved, generated) ==
  IF ~saved THEN fs
  ELSE IF ~generated THEN saveCasinoConfig(fs)
  ELSE generateEnvFile(saveCasinoConfig(fs))

\* the ninth task: either call may throw
ConfigFiles(saved, generated) ==
  /\ runState = "running" /\ taskState[TConfig] = "running"
  /\ IF saved /\ generated
       THEN Return(TConfig, NoWrites)
       ELSE Throw(TConfig, "ConfigFailed", Empty)
  /\ files' = FilesAfterConfigTask(files, saved, generated)
  /\ UNCHANGED <<runState, remote, localDir, pgVars>>
  /\ UNCHANGED <<appSecrets, lastBatch, restVars>>
  /\ UNCHANGED callVars

\* A JavaScript object is the order in which its keys were inserted and the
\* value at each key.  The keys of the `secrets` literal of the init task:
SecretKeys == <<"CASINO_NAME", "OWNER_WALLET", "SOLANA_RPC_URL", "JWT_SECRET",
                "DATABASE_URL", "REDIS_URL", "NODE_ENV">>

\* what runConfigWizard answered
WizardConfig == [casinoName |-> CasinoName, ownerWallet |-> <<"wallet">>,
                 solanaRpcUrl |-> <<"https://rpc">>, jwtSecret |-> <<"jwt">>]

\* const secrets = { CASINO_NAME: ..., ..., NODE_ENV: 'production' }
InitSecrets(c) ==
  [order |-> SecretKeys,
   at |-> [k \in {SecretKeys[n] : n \in 1..Len(SecretKeys)} |->
             CASE k = "CASINO_NAME" -> WizardConfig.casinoName
               [] k = "OWNER_WALLET" -> WizardConfig.ownerWallet
               [] k = "SOLANA_RPC_URL" -> WizardConfig.solanaRpcUrl
               [] k = "JWT_SECRET" -> WizardConfig.jwtSecret
               [] k = "DATABASE_URL" -> c["postgresUrl"]
               [] k = "REDIS_URL" -> c["redisUrl"]
               [] OTHER -> <<"production">>]]

\* a batch that lists every entry twice
secretsInputTwice(secrets) ==
  [n \in 1..(2 * Len(secrets.order)) |->
     LET k == secrets.order[((n - 1) % Len(secrets.order)) + 1]
     IN [key |-> k, value |-> secrets.at[k]]]

\* Object.entries(secrets).map(([key, value]) => ({ key, value }))
secretsInput(secrets) ==
  [n \in 1..Len(secrets.order) |->
     [key |-> secrets.order[n], value |-> secrets.at[secrets.order[n]]]]

\* The platform's setSecrets mutation: each entry of the batch, in order,
\* replaces what the app held under its key.
RECURSIVE SetSecretsApplied(_, _)
SetSecretsApplied(store, input) ==
  IF input = << >> THEN store
  ELSE SetSecretsApplied({p \in store : p.key # Head(input).key} \cup {Head(input)},
                         Tail(input))

\* setSecrets
Secrets(app, set) ==
  /\ runState = "running" /\ taskState[TSecrets] = "running"
  /\ lookedUp' = Performed(<<AppLookup("setSecrets", app)>>)
  /\ IF app = "throws"
       THEN /\ Throw(TSecrets, "SecretsFailed", <<"graphql error">>)
            /\ UNCHANGED <<appSecrets, lastBatch, mutationSent>>
     ELSE IF NotFound(app)
       THEN /\ Throw(TSecrets, "SecretsFailed", <<"App not found">>)
            /\ UNCHANGED <<appSecrets, lastBatch, mutationSent>>
     ELSE IF set = "throws"
       THEN /\ Throw(TSecrets, "SecretsFailed", <<"graphql error">>)
            /\ lastBatch' = secretsInput(InitSecrets(ctx))
            /\ mutationSent' = TRUE
            /\ UNCHANGED appSecrets
     ELSE /\ Return(TSecrets, NoWrites)
          /\ lastBatch' = secretsInput(InitSecrets(ctx))
          /\ mutationSent' = TRUE
          /\ appSecrets' = SetSecretsApplied(appSecrets, lastBatch')
  /\ UNCHANGED <<runState, remote, localDir, pgVars>>
  /\ UNCHANGED <<files, restVars>>

\* deployToFly
Deploy(r) ==
  /\ runState = "running" /\ taskState[TDeploy] = "running"
  /\ IF Rejects(r) THEN Throw(TDeploy, "SpawnError", Empty)
     ELSE IF ExitCode(r) # 0
       THEN Throw(TDeploy, "DeployFailed", OrElse(r.stderr, r.stdout))
     ELSE Return(TDeploy, NoWrites)
  /\ UNCHANGED <<runState, remote, localDir, pgVars>>
  /\ UNCHANGED <<outVars, restVars>>
  /\ UNCHANGED callVars

\* ------------------------------------------------------- provisionPostgres
maxRetries == 20
SettleMs == 5000
IntervalMs == 3000

Statuses == {"creating", "ready", "failed"}

\* Lines of the `fly mpg list` table.  wellFormed: the line has the shape
\* /^([a-z0-9]+)\s+\S+\s+\S+\s+\S+\s+(\S+)/ captures an id and a status from.
OwnRows ==
  [id : {"c1"}, name : {DbName(FlyAppName)}, status : Statuses, wellFormed : {TRUE}]
    \cup [id : {"c1"}, name : {DbName(FlyAppName)}, status : {"ready"},
          wellFormed : {FALSE}]
LookalikeRows ==
  [id : {"c2"}, name : {DbName(FlyAppName) \o <<"-old">>},
   status : {"creating", "ready"}, wellFormed : {TRUE}]
OtherRows ==
  [id : {"c3"}, name : {<<"other-db">>}, status : {"ready"}, wellFormed : {TRUE}]
Rows == OwnRows \cup LookalikeRows \cup OtherRows
Listings == UNION {[1..n -> Rows] : n \in 0..MaxRows}

\* lines.find(line => line.includes(dbName)): position of the line, 0 if none
FindLine(lines, dbName) ==
  LET hits == {k \in 1..Len(lines) : Includes(lines[k].name, dbName)}
  IN IF hits = {} THEN 0 ELSE CHOOSE k \in hits : \A h \in hits : k <= h

RegexMatch(line) == line.wellFormed

\* the body of one loop iteration up to the status test
Observe(r, dbName, prevId) ==
  IF ExitCode(r) # 0
    THEN [matched |-> FALSE, id |-> prevId, status |-> ""]
    ELSE LET k == FindLine(r.stdout, dbName)
         IN IF k = 0 \/ ~RegexMatch(r.stdout[k])
              THEN [matched |-> FALSE, id |-> prevId, status |-> ""]
              ELSE [matched |-> TRUE, id |-> r.stdout[k].id,
                    status |-> r.stdout[k].status]

IsReady(status) == status = "ready"

\* a loop that runs one iteration too many
LoopCondOffByOne(k) == k <= maxRetries

\* for (let i = 0; i < maxRetries; i++)
LoopCond(k) == k < maxRetries

\* a loop without the break
NeverBreaks(ready) == FALSE

\* if (status === 'ready') { clusterReady = true; break; }
Breaks(ready) == ready

\* if (i < maxRetries - 1) await setTimeout(3000)
SleepsAfter(k) == k < maxRetries - 1

\* a status query whose non-zero exit is thrown instead of skipped
QueryAbortsOnExit(r) == Rejects(r) \/ ExitCode(r) # 0

\* the await of the status query throws only when its promise rejects
QueryAborts(r) == Rejects(r)

\* a function without the check that follows the loop
NotReadyUnchecked(ready, id) == FALSE

\* if (!clusterReady || !clusterId) throw ...
NotReady(ready, id) == ~ready \/ id = ""

\* the timeout reported with the message of the create failure
TimeoutKindAsCreate == "CreateFailed"

\* `Postgres cluster ${dbName} is not ready after ${maxRetries * 3} seconds...`
TimeoutKind == "NotReady"

PgThrow(kind, text) ==
  /\ Throw(TPostgres, kind, text)
  /\ pgpc' = "failed"

PgGoOn(next) ==
  /\ pgpc' = next
  /\ UNCHANGED <<taskState, ctx, err>>

Failed(r) == r.raised \/ r.signalled \/ r.code # 0

\* how a call ended: 'error' event, signal, non-zero exit code, or well
How(r) ==
  IF r.raised THEN "raise"
  ELSE IF r.signalled THEN "signal"
  ELSE IF r.code # 0 THEN "exit" ELSE "ok"

Note(phase, r) ==
  IF Failed(r) THEN callFailed \cup {[phase |-> phase, how |-> How(r)]}
               ELSE callFailed

\* fly mpg create; took: the platform created the cluster
PgCreate(r, took) ==
  /\ runState = "running" /\ taskState[TPostgres] = "running" /\ pgpc = "create"
  /\ ~Failed(r) => took
  /\ Refused(DbName(FlyAppName)) => Failed(r)
  /\ r.raised => ~took
  /\ IF Rejects(r) THEN PgThrow("SpawnError", Empty)
     ELSE IF ExitCode(r) # 0 THEN PgThrow("CreateFailed", ErrorMsg(r))
     ELSE PgGoOn("settle")
  /\ remote' = IF took THEN remote \cup {DbName(FlyAppName)} ELSE remote
  /\ callFailed' = Note("create", r)
  /\ UNCHANGED <<runState, localDir, i, clusterReady, clusterId, queries,
                 slept, readyAt, lastStatus, lastQuery, lastId>>
  /\ UNCHANGED <<outVars, restVars>>
  /\ UNCHANGED callVars

\* await new Promise(resolve => setTimeout(resolve, 5000))
PgSettle ==
  /\ runState = "running" /\ taskState[TPostgres] = "running" /\ pgpc = "settle"
  /\ slept' = slept + SettleMs
  /\ i' = 0 /\ clusterReady' = FALSE /\ clusterId' = ""
  /\ PgGoOn("list")
  /\ UNCHANGED <<runState, remote, localDir, queries, readyAt, lastStatus,
                 lastQuery, lastId, callFailed>>
  /\ UNCHANGED <<outVars, restVars>>
  /\ UNCHANGED callVars

\* one iteration of the polling loop, and what follows the loop when it ends;
\* the table shows a cluster of the casino's name only if there is one
PgList(r) ==
  /\ runState = "running" /\ taskState[TPostgres] = "running" /\ pgpc = "list"
  /\ \A k \in DOMAIN r.stdout :
        r.stdout[k].name = DbName(FlyAppName) => DbName(FlyAppName) \in remote
  /\ queries' = queries + 1
  /\ callFailed' = Note("poll", r)
  /\ lastQuery' = How(r)
  /\ IF QueryAborts(r)
       THEN /\ PgThrow("SpawnError", Empty)
            /\ lastStatus' = ""
            /\ lastId' = ""
            /\ UNCHANGED <<i, clusterReady, clusterId, slept, readyAt>>
       ELSE LET obs == Observe(r, DbName(FlyAppName), clusterId)
                ready == obs.matched /\ IsReady(obs.status)
                out == Breaks(ready) \/ ~LoopCond(i + 1)
            IN /\ clusterId' = obs.id
               /\ clusterReady' = (clusterReady \/ ready)
               /\ readyAt' = IF ready /\ readyAt = 0 THEN queries + 1 ELSE readyAt
               /\ lastStatus' = obs.status
               /\ lastId' = IF obs.matched THEN obs.id ELSE ""
               /\ i' = IF Breaks(ready) THEN i ELSE i + 1
               /\ slept' = IF ~Breaks(ready) /\ SleepsAfter(i)
                             THEN slept + IntervalMs ELSE slept
               /\ IF ~out THEN PgGoOn("list")
                  ELSE IF NotReady(clusterReady', clusterId')
                    THEN PgThrow(TimeoutKind, Empty)
                  ELSE PgGoOn("attach")
  /\ UNCHANGED <<runState, remote, localDir>>
  /\ UNCHANGED <<outVars, restVars>>
  /\ UNCHANGED callVars

\* fly mpg attach <clusterId> --app <appName>
PgAttach(r) ==
  /\ runState = "running" /\ taskState[TPostgres] = "running" /\ pgpc = "attach"
  /\ IF Rejects(r) THEN PgThrow("SpawnError", Empty)
     ELSE IF ExitCode(r) # 0 THEN PgThrow("AttachFailed", ErrorMsg(r))
     ELSE PgGoOn("status")
  /\ callFailed' = Note("attach", r)
  /\ UNCHANGED <<runState, remote, localDir, i, clusterReady, clusterId,
                 queries, slept, readyAt, lastStatus, lastQuery, lastId>>
  /\ UNCHANGED <<outVars, restVars>>
  /\ UNCHANGED callVars

\* stdout of `fly mpg status <id> --json`: whether JSON.parse accepts it and
\* the credentials it holds
StatusBodies ==
  [parses : BOOLEAN, uri : {Empty, <<"postgres://pgbouncer">>},
   password : {Empty, <<"s3cret">>}]

Placeholder == <<"postgresql://placeholder">>
Unknown == <<"unknown">>

\* the connection descriptor provisionPostgres returns
Descriptor(r, body) ==
  IF ExitCode(r) = 0 /\ body.parses /\ body.uri # Empty
    THEN [connectionString |-> body.uri, password |-> OrElse(body.password, Unknown)]
    ELSE [connectionString |-> Placeholder, password |-> Unknown]

\* fly mpg status <clusterId> --json, the return, and the task's assignments
PgStatus(r, body) ==
  /\ runState = "running" /\ taskState[TPostgres] = "running" /\ pgpc = "status"
  /\ IF Rejects(r)
       THEN PgThrow("SpawnError", Empty)
       ELSE LET d == Descriptor(r, body)
            IN /\ Return(TPostgres,
                     [f \in {"postgresUrl", "databasePassword", "postgresPassword"} |->
                        IF f = "postgresUrl" THEN d.connectionString ELSE d.password])
               /\ pgpc' = "done"
  /\ callFailed' = Note("extract", r)
  /\ UNCHANGED <<runState, remote, localDir, i, clusterReady, clusterId,
                 queries, slept, readyAt, lastStatus, lastQuery, lastId>>
  /\ UNCHANGED <<outVars, restVars>>
  /\ UNCHANGED callVars

\* ------------------------------------------------------------ CLI entry point
\* program.command('init').action(async (name) => { try { await initCommand(name) }
\*   catch (error) { console.error('Error:', error.message); process.exit(1) } })

\* an entry point that prints the same words for every failure
SurfacedGeneric(e) == [kind |-> "Failed", text |-> Empty]

\* error.message: the message of the error the task threw, and nothing else
Surfaced(e) == [kind |-> e.kind, text |-> e.text]

\* an entry point that swallows the error
ExitOnCatchSwallowed(e) == 0

\* process.exit(1)
ExitOnCatch(e) == 1

\* the process ends by itself once the action has returned
ExitOnReturn == 0

CliCatch ==
  /\ runState = "failed" /\ exitCode = StillRunning
  /\ printed' = Surfaced(err)
  /\ exitCode' = ExitOnCatch(err)
  /\ UNCHANGED <<runState, taskState, ctx, err, remote, localDir, pgVars, callVars, pre, sideVars,
                 outVars, command, stepState, found>>
  /\ UNCHANGED startVars

CliReturn ==
  /\ runState = "ok" /\ exitCode = StillRunning
  /\ exitCode' = ExitOnReturn
  /\ UNCHANGED <<runState, taskState, ctx, err, remote, localDir, pgVars, callVars, pre, sideVars,
                 outVars, printed, command, stepState, found>>
  /\ UNCHANGED startVars

\* ------------------------------------------- the deploy and cleanup commands
Commands == {"init", "deploy", "cleanup"}

\* deployCommand: new Listr([build, deploy])
SBuild == 1
SDeploy == 2
\* cleanupCommand: new Listr([local, apps, clusters, redis, tigris])
SLocal == 1
SApps == 2
SClusters == 3
SRedis == 4
STigris == 5

NumSteps(cmd) == IF cmd = "deploy" THEN 2 ELSE IF cmd = "cleanup" THEN 5 ELSE 0

OtherApp == <<"fare-", "other">>

\* what the four scans of cleanup can have found
Scans ==
  [apps : {<< >>, <<FlyAppName>>, <<FlyAppName, OtherApp>>},
   clusters : {<< >>, <<DbName(FlyAppName)>>},
   redis : {<< >>, <<RedisName(FlyAppName)>>},
   tigris : {<< >>, <<TigrisName(FlyAppName)>>}]

Elements(seq) == {seq[n] : n \in 1..Len(seq)}

\* the instances a destroy task of cleanup loops over
Targets(t) ==
  IF t = SApps THEN found.apps
  ELSE IF t = SClusters THEN found.clusters
  ELSE IF t = SRedis THEN found.redis
  ELSE IF t = STigris THEN found.tigris
  ELSE << >>

\* skip: () => apps.length === 0, and the like
Skip(t) == command = "cleanup" /\ t \in SApps..STigris /\ Len(Targets(t)) = 0

\* deployCommand or cleanupCommand has built its task list
CommandInit ==
  /\ command \in {"deploy", "cleanup"}
  /\ stage = "tasks"
  /\ checks = (IF command = "cleanup" THEN [Unchecked EXCEPT !.confirmed = "yes"]
                                       ELSE Unchecked)
  /\ flyCalls = (IF command = "cleanup" THEN Cardinality(ScanKinds) ELSE 0)
  /\ scan = (IF command = "cleanup" THEN [k \in ScanKinds |-> "ok"] ELSE NotScanned)
  /\ stepState = [t \in 1..NumSteps(command) |-> "pending"]
  /\ found \in (IF command = "cleanup" THEN Scans ELSE {NoScan})
  /\ pre = (IF command = "cleanup"
              THEN Elements(found.apps) \cup Elements(found.clusters)
                     \cup Elements(found.redis) \cup Elements(found.tigris)
              ELSE {FlyAppName})
  /\ PipelineInit
  /\ NoSide

\* Listr runs the next task of the command, or skips it
StartStep(t) ==
  /\ command \in {"deploy", "cleanup"} /\ stage = "tasks"
  /\ runState = "running"
  /\ t \in DOMAIN stepState /\ stepState[t] = "pending"
  /\ \A u \in 1..(t - 1) : stepState[u] \in {"done", "skipped"}
  /\ stepState' = [stepState EXCEPT ![t] = IF Skip(t) THEN "skipped" ELSE "running"]
  /\ UNCHANGED <<runState, taskState, ctx, err, remote, localDir, pgVars, callVars, pre, sideVars,
                 outVars, exitCode, printed, command, found>>
  /\ UNCHANGED startVars

StepThrow(t, kind, text) ==
  /\ stepState' = [stepState EXCEPT ![t] = "failed"]
  /\ err' = [task |-> t, kind |-> kind, text |-> text]

StepReturn(t) ==
  /\ stepState' = [stepState EXCEPT ![t] = "done"]
  /\ err' = err

\* deploy: buildProject
DeployBuild(outs) ==
  /\ command = "deploy" /\ runState = "running" /\ stepState[SBuild] = "running"
  /\ built' = Built(outs)
  /\ IF FirstBad(outs) # 0
       THEN StepThrow(SBuild, "BuildFailed", <<BuildOrder[FirstBad(outs)]>>)
       ELSE StepReturn(SBuild)
  /\ UNCHANGED <<runState, taskState, ctx, remote, localDir, pgVars, callVars, pre, sideVars,
                 outVars, exitCode, printed, command, found>>
  /\ UNCHANGED <<migrated, stage, checks, flyCalls, scan>>

\* deploy: deployToFly
DeployDeploy(r) ==
  /\ command = "deploy" /\ runState = "running" /\ stepState[SDeploy] = "running"
  /\ IF Rejects(r) THEN StepThrow(SDeploy, "SpawnError", Empty)
     ELSE IF ExitCode(r) # 0
       THEN StepThrow(SDeploy, "DeployFailed", OrElse(r.stderr, r.stdout))
     ELSE StepReturn(SDeploy)
  /\ UNCHANGED <<runState, taskState, ctx, remote, localDir, pgVars, callVars, pre, sideVars,
                 outVars, exitCode, printed, command, found>>
  /\ UNCHANGED startVars

\* cleanup: fs.rm(CASINOS_DIR, { recursive, force }) in a try with an empty catch
CleanLocal(rmOk) ==
  /\ command = "cleanup" /\ runState = "running" /\ stepState[SLocal] = "running"
  /\ localDir' = (localDir /\ ~rmOk)
  /\ StepReturn(SLocal)
  /\ UNCHANGED <<runState, taskState, ctx, remote, pgVars, callVars, pre, sideVars,
                 outVars, exitCode, printed, command, found>>
  /\ UNCHANGED startVars

\* cleanup.ts has its own executeFlyCommand: it resolves on 'close' and has no
\* 'error' handler
CleanupOutcomes == {r \in CmdOutcomes({Empty}, {Empty}) : ~r.raised}

\* cleanup: for (const x of xs) await executeFlyCommand([..., 'destroy', x, ...])
\* -- the results are not looked at; the platform removed what exited with 0
CleanDestroy(t, outs) ==
  /\ command = "cleanup" /\ runState = "running"
  /\ t \in SApps..STigris /\ stepState[t] = "running"
  /\ remote' = remote \ {Targets(t)[n] : n \in {m \in DOMAIN outs : How(outs[m]) = "ok"}}
  /\ flyCalls' = flyCalls + Len(Targets(t))
  /\ StepReturn(t)
  /\ UNCHANGED <<runState, taskState, ctx, localDir, pgVars, callVars, pre, sideVars,
                 outVars, exitCode, printed, command, found>>
  /\ UNCHANGED <<migrated, stage, checks, scan, built>>

\* tasks.run rejected: catch (error) { console.error(...); throw error; }
CommandRejected ==
  /\ command \in {"deploy", "cleanup"} /\ runState = "running"
  /\ \E u \in DOMAIN stepState : stepState[u] = "failed"
  /\ \A u \in DOMAIN stepState : stepState[u] # "running"
  /\ runState' = "failed"
  /\ UNCHANGED <<taskState, ctx, err, remote, localDir, pgVars, callVars, pre, sideVars,
                 outVars, exitCode, printed, command, stepState, found>>
  /\ UNCHANGED startVars

\* tasks.run resolved; deploy goes on to getAppInfo inside the same try
CommandResolved(r) ==
  /\ command \in {"deploy", "cleanup"} /\ runState = "running"
  /\ \A u \in DOMAIN stepState : stepState[u] \in {"done", "skipped"}
  /\ IF command = "deploy" /\ Rejects(r)
       THEN /\ runState' = "failed"
            /\ err' = [task |-> 0, kind |-> "SpawnError", text |-> Empty]
       ELSE /\ runState' = "ok"
            /\ UNCHANGED err
  /\ UNCHANGED <<taskState, ctx, remote, localDir, pgVars, callVars, pre, sideVars,
                 outVars, exitCode, printed, command, stepState, found>>
  /\ UNCHANGED startVars

\* ------------------------------------------ cleanup from its first statement
\* an app that is not a casino's
ForeignApp == <<"blog">>

\* a cluster that is no casino's: its name holds `fare-` and `-db`
WelfareDb == <<"wel", "fare-", "app", "-db">>

\* what the platform lists under each kind, in the order it prints the rows
Listed(kind) ==
  IF kind = "apps" THEN <<FlyAppName, OtherApp, ForeignApp>>
  ELSE IF kind = "clusters" THEN <<DbName(FlyAppName), WelfareDb>>
  ELSE IF kind = "redis" THEN <<RedisName(FlyAppName)>>
  ELSE <<TigrisName(FlyAppName)>>

World == UNION {Elements(Listed(k)) : k \in ScanKinds}

\* the rows of a kind that exist now
Present(kind) == LET exists(n) == n \in remote IN SelectSeq(Listed(kind), exists)

\* name.startsWith(prefix) on token sequences
StartsWith(name, prefix) ==
  Len(name) >= Len(prefix) /\ SubSeq(name, 1, Len(prefix)) = prefix

\* apps.filter(app => app.Name && app.Name.startsWith('fare-')).map(app => app.Name)
getFareApps(rows) ==
  LET fare(n) == StartsWith(n, <<"fare-">>) IN SelectSeq(rows, fare)

\* the lines with line.includes('fare-') && line.includes('-db'); a row is the
\* cluster's name, which stands for the id printed on the same line
getFarePostgresClusters(rows) ==
  LET fare(n) == Includes(n, <<"fare-">>) /\ Includes(n, <<"-db">>)
  IN SelectSeq(rows, fare)

\* the lines with line.includes('fare-') && line.includes(suffix)
getFareAddOns(rows, suffix) ==
  LET fare(n) == Includes(n, <<"fare-">>) /\ Includes(n, suffix)
  IN SelectSeq(rows, fare)

\* how a fly command of cleanup can end: its executeFlyCommand has no
\* 'error' handler
CleanupHows == {How(r) : r \in CleanupOutcomes}

\* result.exitCode of cleanup's executeFlyCommand: code || 0
CleanupExit(how) == IF how = "exit" THEN 1 ELSE 0

\* what a scan returns: [] when the command exits non-zero; a command ended
\* by a signal has printed nothing, which JSON.parse rejects (apps: the catch
\* returns []) and which holds no line (the others)
ScanFinds(kind, how) ==
  IF CleanupExit(how) # 0 THEN << >>
  ELSE LET rows == IF how = "ok" THEN Present(kind) ELSE << >>
       IN IF kind = "apps" THEN getFareApps(rows)
          ELSE IF kind = "clusters" THEN getFarePostgresClusters(rows)
          ELSE IF kind = "redis" THEN getFareAddOns(rows, <<"-redis">>)
          ELSE getFareAddOns(rows, <<"-storage">>)

\* a command that goes on whatever the user answered
CancelledNever(confirmed) == FALSE

\* if (!confirmed) { console.log('Cleanup cancelled.'); return; }
Cancelled(confirmed) == ~confirmed

\* the variables nothing touches before the task list runs
quietVars == <<taskState, ctx, remote, localDir, pgVars, callVars, pre, sideVars,
               outVars, exitCode, printed, command, stepState, migrated, built>>

\* `fare cleanup`: the command has been started, nothing has been asked
CleanupStart ==
  /\ command = "cleanup"
  /\ stage = "prompt"
  /\ checks = Unchecked
  /\ flyCalls = 0
  /\ scan = NotScanned
  /\ stepState = [t \in 1..NumSteps("cleanup") |-> "pending"]
  /\ found = NoScan
  /\ pre \in SUBSET World
  /\ PipelineFresh
  /\ localDir \in BOOLEAN
  /\ NoSide

\* the confirmation prompt
CleanPrompt(confirmed) ==
  /\ command = "cleanup" /\ stage = "prompt"
  /\ checks' = [checks EXCEPT !.confirmed = IF confirmed THEN "yes" ELSE "no"]
  /\ IF Cancelled(confirmed)
       THEN stage' = "cancelled" /\ runState' = "ok"
       ELSE stage' = "org" /\ UNCHANGED runState
  /\ UNCHANGED <<err, flyCalls, scan, found, quietVars>>

\* stdout of `fly orgs list --json`: nothing, no JSON, or an object of so many slugs
OrgListings == {"nothing", "garbage", "none", "one", "many"}

\* the command throws before its task list
Abort(kind) ==
  /\ runState' = "failed"
  /\ err' = [task |-> 0, kind |-> kind, text |-> Empty]
  /\ stage' = "aborted"

\* Promise.all([getFareApps(), ...]) has called the four functions: each has
\* issued its fly command
StartScans(issued) ==
  /\ stage' = "scan"
  /\ scan' = [k \in ScanKinds |-> "pending"]
  /\ flyCalls' = flyCalls + issued + Cardinality(ScanKinds)
  /\ UNCHANGED <<runState, err>>

\* the organization: --org, or `fly orgs list` and, with several, a prompt
CleanOrg(given, how, listing) ==
  /\ command = "cleanup" /\ stage = "org"
  /\ IF given THEN StartScans(0)
     ELSE IF CleanupExit(how) = 0 /\ listing \notin {"nothing", "garbage", "none"}
       THEN StartScans(1)
     ELSE IF CleanupExit(how) = 0 /\ listing = "none"
       THEN /\ stage' = "noorgs" /\ runState' = "ok"
            /\ flyCalls' = flyCalls + 1
            /\ UNCHANGED <<err, scan>>
     ELSE /\ Abort("OrgsFailed")
          /\ flyCalls' = flyCalls + 1
          /\ UNCHANGED scan
  /\ UNCHANGED <<checks, found, quietVars>>

\* one of the four scans returns; `await Promise.all` goes on when all have
ScanDone(kind, how) ==
  /\ command = "cleanup" /\ stage = "scan" /\ scan[kind] = "pending"
  /\ found' = [found EXCEPT ![kind] = ScanFinds(kind, how)]
  /\ scan' = [scan EXCEPT ![kind] = IF how = "ok" THEN "ok" ELSE "failed"]
  /\ stage' = IF \A k \in ScanKinds \ {kind} : scan[k] # "pending"
                THEN "tasks" ELSE "scan"
  /\ UNCHANGED <<runState, err, checks, flyCalls, quietVars>>

\* --------------------------------------------- init from its first statement
\* how the `fly version` or `fly auth whoami` of a check can end
ProbeHows == {"ok", "exit", "signal", "raise"}

\* proc.on('error', () => resolve({ exitCode: 1 }));
\* proc.on('close', (code) => resolve({ exitCode: code || 0 }))
ProbeExit(how) == IF how \in {"exit", "raise"} THEN 1 ELSE 0

\* the two commands a check tries, `fly` then `flyctl`
Probes == [1..2 -> ProbeHows]

\* for (const cmd of ['fly', 'flyctl']) { ...; if (result.exitCode === 0) return true }
\* return false
checkFlyCliInstalled(hows) == \E n \in DOMAIN hows : ProbeExit(hows[n]) = 0
checkFlyAuth(hows) == \E n \in DOMAIN hows : ProbeExit(hows[n]) = 0

\* flyInstalled when initCommand gets past its check of the CLI: found, found
\* after fixFlyPermissions, or installed on request
CliReady(seen, fixed, reseen, shouldInstall, installed) ==
  seen \/ (fixed /\ reseen) \/ (shouldInstall /\ installed)

\* a command that does not verify the login
AuthFailsUnverified(first, second) == FALSE

\* if (!flyAuthed) { await authenticateFly();
\*                   if (!(await checkFlyAuth())) throw new Error(...) }
AuthFails(first, second) == ~first /\ ~second

\* `fare init <casino-name>`: the command has been started; a directory of
\* the casino's name may exist
InitStart ==
  /\ command = "init"
  /\ stage = "validate"
  /\ checks = Unchecked
  /\ flyCalls = 0
  /\ scan = NotScanned
  /\ stepState = << >>
  /\ found = NoScan
  /\ pre \in SUBSET ResourceNames
  /\ PipelineFresh
  /\ localDir \in BOOLEAN
  /\ NoSide

GoOn(next) ==
  /\ stage' = next
  /\ UNCHANGED <<runState, err>>

\* validateCasinoName(casinoName) in a try: valid = it did not throw
InitValidate(valid) ==
  /\ command = "init" /\ stage = "validate"
  /\ checks' = [checks EXCEPT !.valid = IF valid THEN "yes" ELSE "no"]
  /\ IF valid THEN GoOn("exists") ELSE Abort("InvalidName")
  /\ UNCHANGED <<flyCalls, scan, found, quietVars>>

\* if (await casinoExists(casinoName)) throw ...
InitExists ==
  /\ command = "init" /\ stage = "exists"
  /\ checks' = [checks EXCEPT !.free = IF casinoExists(localDir) THEN "no" ELSE "yes"]
  /\ IF casinoExists(localDir) THEN Abort("AlreadyExists") ELSE GoOn("cli")
  /\ UNCHANGED <<flyCalls, scan, found, quietVars>>

\* checkFlyCliInstalled, fixFlyPermissions, the install prompt, installFlyCli
InitCli(first, fixed, second, shouldInstall, installed) ==
  /\ command = "init" /\ stage = "cli"
  /\ LET ready == CliReady(checkFlyCliInstalled(first), fixed,
                           checkFlyCliInstalled(second), shouldInstall, installed)
     IN /\ checks' = [checks EXCEPT !.cli = IF ready THEN "yes" ELSE "no"]
        /\ IF ready THEN GoOn("auth") ELSE Abort("CliRequired")
  /\ UNCHANGED <<flyCalls, scan, found, quietVars>>

\* checkFlyAuth, and when it says no: authenticateFly and checkFlyAuth again
InitAuth(first, login, second) ==
  /\ command = "init" /\ stage = "auth"
  /\ IF checkFlyAuth(first)
       THEN /\ checks' = [checks EXCEPT !.auth = "yes"]
            /\ GoOn("org-init")
     ELSE IF Rejects(login) \/ ExitCode(login) # 0
       THEN /\ checks' = [checks EXCEPT !.auth = "no"]
            /\ Abort("AuthFailed")
     ELSE /\ checks' = [checks EXCEPT !.auth = IF checkFlyAuth(second) THEN "yes" ELSE "no"]
          /\ IF AuthFails(checkFlyAuth(first), checkFlyAuth(second))
               THEN Abort("AuthFailed")
               ELSE GoOn("org-init")
  /\ UNCHANGED <<flyCalls, scan, found, quietVars>>

\* selectOrganization: getOrganizations throws unless `fly orgs list --json`
\* exits 0 and prints an object with a slug; runConfigWizard follows, then
\* the context and the task list
InitOrg(r, listing) ==
  /\ command = "init" /\ stage = "org-init"
  /\ IF Rejects(r) THEN Abort("SpawnError")
     ELSE IF ExitCode(r) # 0 \/ listing \in {"nothing", "garbage", "none"}
       THEN Abort("OrgsFailed")
     ELSE GoOn("tasks")
  /\ UNCHANGED <<checks, flyCalls, scan, found, quietVars>>

\* ------------------------------------------------- functions on their own
\* no command is running
Idle ==
  /\ command = "none"
  /\ stage = "none"
  /\ checks = Unchecked
  /\ flyCalls = 0
  /\ scan = NotScanned
  /\ stepState = << >>
  /\ found = NoScan
  /\ pre = {}
  /\ PipelineInit

\* --- setSecrets called more than once for one app
KeyPool == {"DATABASE_URL", "REDIS_URL", "NODE_ENV"}
ValuePool == {<<"v1">>, <<"v2">>}

\* the key orders of an object: sequences of distinct keys
KeyOrders ==
  {o \in UNION {[1..n -> KeyPool] : n \in 0..MaxKeys} :
     \A m \in DOMAIN o : \A n \in DOMAIN o : m # n => o[m] # o[n]}

SecretObjects ==
  UNION {[order : {o}, at : [Elements(o) -> ValuePool]] : o \in KeyOrders}

SecretsInit ==
  /\ Idle
  /\ calls \in [1..2 -> SecretObjects]
  /\ ncalls = 0
  /\ casino = CasinoName
  /\ named = {}
  /\ NoLate

\* setSecrets(appName, secrets): the app lookup, then the mutation
SetSecretsCall(app, set) ==
  /\ command = "none" /\ ncalls < Len(calls)
  /\ IF app # "found"
       THEN UNCHANGED <<appSecrets, lastBatch, ncalls>>
     ELSE IF set = "throws"
       THEN /\ lastBatch' = secretsInput(calls[ncalls + 1])
            /\ UNCHANGED <<appSecrets, ncalls>>
     ELSE /\ lastBatch' = secretsInput(calls[ncalls + 1])
          /\ appSecrets' = SetSecretsApplied(appSecrets, lastBatch')
          /\ ncalls' = ncalls + 1
  /\ UNCHANGED <<runState, taskState, ctx, err, remote, localDir, pgVars, callVars, pre,
                 files, exitCode, printed, command, stepState, found, calls,
                 casino, named, lateVars>>
  /\ UNCHANGED startVars

SecretsNext == \E app \in Lookups, set \in {"throws", "ok"} : SetSecretsCall(app, set)

SpecSecrets == SecretsInit /\ [][SecretsNext]_vars

\* --- the names of a casino's resources
NameParts == {<<"a">>, <<"-db">>, <<"-redis">>, <<"-storage">>}

RECURSIVE Concat(_)
Concat(parts) == IF parts = << >> THEN << >> ELSE Head(parts) \o Concat(Tail(parts))

\* casino names: a first part, then up to MaxNameLen more
CasinoNames ==
  {CasinoName \o Concat(ps) : ps \in UNION {[1..n -> NameParts] : n \in 0..MaxNameLen}}

Kinds == {"postgres", "redis", "tigris"}

\* the name the provisioning function of a kind gives its resource
ProvisionedName(kind, appName) ==
  IF kind = "postgres" THEN DbName(appName)
  ELSE IF kind = "redis" THEN RedisName(appName)
  ELSE TigrisName(appName)

\* postgres: `${context.flyAppName}-db`, redis: ..., tigris: ... of the summary
DisplayedName(kind, appName) ==
  IF kind = "postgres" THEN appName \o <<"-db">>
  ELSE IF kind = "redis" THEN appName \o <<"-redis">>
  ELSE appName \o <<"-storage">>

NamingInit ==
  /\ Idle
  /\ calls = << >>
  /\ ncalls = 0
  /\ casino \in CasinoNames
  /\ named = {}
  /\ NoLate

\* a provisioning function, or the summary, computes the name of a kind
NameResource(kind, site) ==
  /\ command = "none" /\ calls = << >>
  /\ named' = named \cup
       {[kind |-> kind, site |-> site,
         name |-> IF site = "provision"
                    THEN ProvisionedName(kind, generateFlyAppName(casino))
                    ELSE DisplayedName(kind, generateFlyAppName(casino))]}
  /\ UNCHANGED <<runState, taskState, ctx, err, remote, localDir, pgVars, callVars, pre,
                 outVars, exitCode, printed, command, stepState, found, calls,
                 ncalls, casino, lateVars>>
  /\ UNCHANGED startVars

NamingNext ==
  \E kind \in Kinds, site \in {"provision", "display"} : NameResource(kind, site)

SpecNaming == NamingInit /\ [][NamingNext]_vars

\* ---------------------------------------------------------- the logs command
\* const VALID_PROCESSES = ['api', 'ws', 'processor']
VALID_PROCESSES == {"api", "ws", "processor"}

\* what can stand on the command line after `fare logs`: nothing
\* ("undefined"), the empty string, a process name, another word
Services == {"undefined", ""} \cup VALID_PROCESSES \cup {"web"}

\* if (service): a string that is not empty
Given(svc) == svc \notin {"undefined", ""}

\* a command that takes any word for a process
ValidServiceAny(svc) == TRUE

\* if (service) { if (!VALID_PROCESSES.includes(service)) throw ... }
ValidService(svc) == Given(svc) => svc \in VALID_PROCESSES

\* `fare logs [service]`: the command has been started; the casino's app may
\* exist on the platform
LogsStart ==
  /\ command = "logs"
  /\ stage = "path"
  /\ checks = Unchecked
  /\ flyCalls = 0
  /\ scan = NotScanned
  /\ stepState = << >>
  /\ found = NoScan
  /\ pre \in SUBSET {FlyAppName}
  /\ PipelineFresh
  /\ localDir = TRUE
  /\ calls = << >>
  /\ ncalls = 0
  /\ casino = CasinoName
  /\ named = {}
  /\ service \in Services
  /\ trail = << >>
  /\ verdict = "?"
  /\ cloners = << >>
  /\ madeBy = 0
  /\ rerun = FALSE

\* what logsCommand leaves alone
logsQuiet == <<taskState, ctx, remote, localDir, pgVars, mutationSent, pre,
               calls, ncalls, casino, named, service, verdict, cloners,
               madeBy, rerun, outVars, exitCode, printed, command, stepState,
               migrated, built, flyCalls, scan, found>>

\* getCurrentCasinoPath() in a try, then loadCasinoConfig
LogsPath(inCasino) ==
  /\ command = "logs" /\ stage = "path"
  /\ IF inCasino THEN GoOn("service") ELSE Abort("NotInCasino")
  /\ UNCHANGED <<checks, trail, lookedUp, logsQuiet>>

\* the check of the process name
LogsService ==
  /\ command = "logs" /\ stage = "service"
  /\ checks' = [checks EXCEPT !.valid = IF ValidService(service) THEN "yes" ELSE "no"]
  /\ IF ValidService(service) THEN GoOn("auth") ELSE Abort("InvalidProcess")
  /\ UNCHANGED <<trail, lookedUp, logsQuiet>>

\* the commands checkFlyAuth ran: `flyctl` only when `fly` did not exit 0
Whoami(hows) ==
  IF ProbeExit(hows[1]) = 0 THEN <<"fly auth whoami">>
  ELSE <<"fly auth whoami", "flyctl auth whoami">>

\* const flyAuthed = await checkFlyAuth(); if (!flyAuthed) throw ...
LogsAuth(hows) ==
  /\ command = "logs" /\ stage = "auth"
  /\ trail' = trail \o Whoami(hows)
  /\ checks' = [checks EXCEPT !.auth = IF checkFlyAuth(hows) THEN "yes" ELSE "no"]
  /\ IF checkFlyAuth(hows) THEN GoOn("app") ELSE Abort("NotAuthenticated")
  /\ UNCHANGED <<lookedUp, logsQuiet>>

\* appExists(appName): try { ...GetApp...; return !!appData.data.app }
\*                     catch { return false }
LogsAppLookup(fails) ==
  IF fails THEN "throws" ELSE IF FlyAppName \in remote THEN "found" ELSE "missing"

\* const exists = await appExists(flyAppName); if (!exists) { ...; return; }
LogsExists(fails) ==
  /\ command = "logs" /\ stage = "app"
  /\ trail' = Append(trail, "GetApp")
  /\ lookedUp' = <<LogsAppLookup(fails)>>
  /\ IF LogsAppLookup(fails) = "found"
       THEN GoOn("stream")
       ELSE /\ stage' = "noapp"
            /\ runState' = "ok"
            /\ UNCHANGED err
  /\ UNCHANGED <<checks, logsQuiet>>

\* streamLogs: args = ['logs', '--app', appName];
\* if (options.process) args.push('--process', options.process); '--follow'
StreamArgs(svc) == IF Given(svc) THEN "logs --process" ELSE "logs"

\* try { await streamLogs(...) }
\* catch (error) { if (error.message.includes('signal')) ... else throw error }
LogsStream(r, aboutSignal) ==
  /\ command = "logs" /\ stage = "stream"
  /\ trail' = Append(trail, StreamArgs(service))
  /\ IF Rejects(r) /\ ~aboutSignal
       THEN Abort("SpawnError")
       ELSE /\ stage' = "streamed"
            /\ runState' = "ok"
            /\ UNCHANGED err
  /\ UNCHANGED <<checks, lookedUp, logsQuiet>>

NextLogs ==
  \/ \E inCasino \in BOOLEAN : LogsPath(inCasino)
  \/ LogsService
  \/ \E hows \in Probes : LogsAuth(hows)
  \/ \E fails \in BOOLEAN : LogsExists(fails)
  \/ \E r \in CmdOutcomes({Empty}, {Empty}), aboutSignal \in BOOLEAN :
        LogsStream(r, aboutSignal)
  \/ CliCatch
  \/ CliReturn

SpecLogs == LogsStart /\ [][NextLogs]_vars

\* ------------------------------------------- cloneCasinoBackend on its own
\* one invocation, or two invocations for one casino name that run together
MaxCloners == 2

\* how the git process of an invocation ended: "?" while it has not
GitHows == {"ok", "exit", "signal", "raise"}

NotCloning == [pc |-> "check", how |-> "?", rm |-> "?"]

ClonesInit ==
  /\ Idle
  /\ calls = << >>
  /\ ncalls = 0
  /\ casino = CasinoName
  /\ named = {}
  /\ service = "undefined"
  /\ trail = << >>
  /\ verdict = "?"
  /\ cloners \in {[k \in 1..n |-> NotCloning] : n \in 1..MaxCloners}
  /\ madeBy = 0
  /\ rerun = FALSE

clonesQuiet == <<runState, taskState, ctx, err, remote, pgVars, callVars, pre,
                 outVars, exitCode, printed, command, stepState, found, calls,
                 ncalls, casino, named, service, trail, rerun, startVars>>

\* if (await casinoExists(casinoName)) throw new Error('...already exists...')
CloneCheck(n) ==
  /\ command = "none" /\ n \in DOMAIN cloners /\ cloners[n].pc = "check"
  /\ cloners' = [cloners EXCEPT ![n].pc = IF casinoExists(localDir) THEN "exists" ELSE "git"]
  /\ UNCHANGED <<localDir, madeBy, verdict, clonesQuiet>>

\* spawn('git', ['clone', ..., casinoPath]) up to its 'error' or 'close' event.
\* git makes the directory when there is none and may leave it behind when it
\* fails (partial); it does not touch a directory that is there already.
CloneGit(n, how, partial) ==
  /\ command = "none" /\ n \in DOMAIN cloners /\ cloners[n].pc = "git"
  /\ how = "ok" => ~localDir
  /\ cloners' = [cloners EXCEPT ![n].how = how,
                                ![n].pc = IF how = "raise" THEN "nogit"
                                          ELSE IF how = "ok" THEN "resolved"
                                          ELSE "cleanup"]
  /\ IF localDir \/ how = "raise"
       THEN UNCHANGED <<localDir, madeBy>>
     ELSE IF how = "ok" \/ partial
       THEN localDir' = TRUE /\ madeBy' = n
     ELSE UNCHANGED <<localDir, madeBy>>
  /\ UNCHANGED <<verdict, clonesQuiet>>

\* try { await fs.rm(casinoPath, { recursive: true, force: true }) } catch {}
\* reject(new Error('Failed to clone repository ...'))
CloneCleanup(n, rmOk) ==
  /\ command = "none" /\ n \in DOMAIN cloners /\ cloners[n].pc = "cleanup"
  /\ cloners' = [cloners EXCEPT ![n].pc = "failed",
                                ![n].rm = IF rmOk THEN "ok" ELSE "threw"]
  /\ localDir' = Removed(localDir, rmOk)
  /\ madeBy' = IF localDir' THEN madeBy ELSE 0
  /\ UNCHANGED <<verdict, clonesQuiet>>

NextClones ==
  \E n \in 1..MaxCloners :
     \/ CloneCheck(n)
     \/ \E how \in GitHows, partial \in BOOLEAN : CloneGit(n, how, partial)
     \/ \E rmOk \in BOOLEAN : CloneCleanup(n, rmOk)

SpecClones == ClonesInit /\ [][NextClones]_vars

\* ------------------------------------------- validateCasinoName on its own
\* the longest name tried
MaxCasinoLen == 31

\* a lowercase letter, a digit, the hyphen, a capital letter
Chars == {"a", "7", "-", "A"}

\* /^[a-z0-9-]+$/
validNameChars == {"a", "7", "-"}

\* if (name.length < 3) throw ...
MinNameLength == 3
\* if (name.length > 30) throw ...
MaxNameLength == 30

\* names as sequences of characters: every name of up to two characters, and
\* the longer ones made of a first character, one repeated, and a last one
TypedNames ==
  UNION {[1..n -> Chars] : n \in 0..2}
    \cup {[k \in 1..n |-> IF k = 1 THEN f ELSE IF k = n THEN l ELSE m] :
            n \in 3..MaxCasinoLen, f \in Chars, m \in Chars, l \in Chars}

\* validateCasinoName(name): the error it throws, "ok" when it returns
validateCasinoName(name) ==
  IF name = << >> THEN "Required"
  ELSE IF \E k \in DOMAIN name : name[k] \notin validNameChars THEN "Characters"
  ELSE IF Len(name) < MinNameLength THEN "TooShort"
  ELSE IF Len(name) > MaxNameLength THEN "TooLong"
  ELSE IF name[1] = "-" \/ name[Len(name)] = "-" THEN "Hyphen"
  ELSE "ok"

ValidateInit ==
  /\ Idle
  /\ calls = << >>
  /\ ncalls = 0
  /\ casino \in TypedNames
  /\ named = {}
  /\ service = "undefined"
  /\ trail = << >>
  /\ verdict = "?"
  /\ cloners = << >>
  /\ madeBy = 0
  /\ rerun = FALSE

\* try { validateCasinoName(casinoName) } catch (error) { ... }
ValidateName ==
  /\ command = "none" /\ verdict = "?"
  /\ verdict' = validateCasinoName(casino)
  /\ UNCHANGED <<localDir, cloners, madeBy, clonesQuiet>>

SpecValidate == ValidateInit /\ [][ValidateName]_vars

\* ------------------------------------------------- init started once more
\* The run failed after its clone and the process has ended; the user starts
\* `fare init` again with the same name.  What is on disk and on the platform
\* stays; validateCasinoName answers for the same name as it did before.
Rerun ==
  /\ command = "init" /\ ~rerun
  /\ runState = "failed" /\ exitCode # StillRunning
  /\ taskState[TClone] = "done"
  /\ rerun' = TRUE
  /\ runState' = "running"
  /\ taskState' = [t \in Tasks |-> "pending"]
  /\ ctx' = [f \in CtxFields |-> Undefined]
  /\ err' = NoError
  /\ pre' = remote
  /\ pgpc' = "idle"
  /\ i' = 0
  /\ clusterReady' = FALSE
  /\ clusterId' = ""
  /\ queries' = 0
  /\ slept' = 0
  /\ readyAt' = 0
  /\ lastStatus' = ""
  /\ lastQuery' = "none"
  /\ lastId' = ""
  /\ callFailed' = {}
  /\ lookedUp' = << >>
  /\ mutationSent' = FALSE
  /\ migrated' = FALSE
  /\ built' = << >>
  /\ lastBatch' = << >>
  /\ exitCode' = StillRunning
  /\ printed' = NothingPrinted
  /\ stage' = "exists"
  /\ checks' = [Unchecked EXCEPT !.valid = "yes"]
  /\ flyCalls' = 0
  /\ UNCHANGED <<remote, localDir, files, appSecrets, command, stepState, found,
                 scan, calls, ncalls, casino, named, service, trail, verdict,
                 cloners, madeBy>>

\* ------------------------------------------------------------ specification
FlyOutcomes == CmdOutcomes(StdOuts, StdErrs)
\* only a status query that exits with code 0 has printed the table
ListOutcomes ==
  {r \in CmdOutcomes(Listings, {Empty}) : How(r) = "ok"}
    \cup {r \in CmdOutcomes({Empty}, {Empty}) : How(r) # "ok"}

Next ==
  \/ \E t \in Tasks : StartTask(t)
  \/ \E r \in FlyOutcomes, partial \in BOOLEAN, rmOk \in BOOLEAN : Clone(r, partial, rmOk)
  \/ \E r \in NpmOutcomes : Install(r)
  \/ \E r \in NpmOutcomes : Prisma(r)
  \/ \E outs \in BuildOutcomes : Build(outs)
  \/ \E org \in Lookups, create \in {"throws", "ok"}, took \in BOOLEAN :
        CreateApp(org, create, took)
  \/ \E org \in Lookups, app \in Lookups, create \in Mutations, took \in BOOLEAN,
        publicUrl \in PublicUrls : Redis(org, app, create, took, publicUrl)
  \/ \E org \in Lookups, app \in Lookups, create \in Mutations, took \in BOOLEAN,
        env \in TigrisEnvs : Tigris(org, app, create, took, env)
  \/ \E r \in FlyOutcomes, took \in BOOLEAN : PgCreate(r, took)
  \/ PgSettle
  \/ \E r \in ListOutcomes : PgList(r)
  \/ \E r \in FlyOutcomes : PgAttach(r)
  \/ \E r \in FlyOutcomes, body \in StatusBodies : PgStatus(r, body)
  \/ \E saved \in BOOLEAN, generated \in BOOLEAN : ConfigFiles(saved, generated)
  \/ \E app \in Lookups, set \in {"throws", "ok"} : Secrets(app, set)
  \/ \E r \in FlyOutcomes : Deploy(r)
  \/ RunRejected
  \/ \E r \in FlyOutcomes : RunResolved(r)
  \/ CliCatch
  \/ CliReturn

Spec == Init /\ [][Next]_vars

\* the three commands with a task pipeline
InitCommands == Init \/ CommandInit

NextCommands ==
  \/ Next
  \/ \E t \in 1..STigris : StartStep(t)
  \/ \E outs \in BuildOutcomes : DeployBuild(outs)
  \/ \E r \in FlyOutcomes : DeployDeploy(r)
  \/ \E rmOk \in BOOLEAN : CleanLocal(rmOk)
  \/ \E t \in SApps..STigris :
        \E outs \in [1..Len(Targets(t)) -> CleanupOutcomes] : CleanDestroy(t, outs)
  \/ CommandRejected
  \/ \E r \in FlyOutcomes : CommandResolved(r)

SpecCommands == InitCommands /\ [][NextCommands]_vars

\* init alone, from its first check on
NextInitStart ==
  \/ \E valid \in BOOLEAN : InitValidate(valid)
  \/ InitExists
  \/ \E first \in Probes, fixed \in BOOLEAN, second \in Probes,
        shouldInstall \in BOOLEAN, installed \in BOOLEAN :
        InitCli(first, fixed, second, shouldInstall, installed)
  \/ \E first \in Probes, login \in CmdOutcomes({Empty}, {Empty}), second \in Probes :
        InitAuth(first, login, second)
  \/ \E r \in CmdOutcomes({Empty}, {Empty}), listing \in OrgListings : InitOrg(r, listing)
  \/ Next

SpecInitStart == InitStart /\ [][NextInitStart]_vars

\* init, and init once more after a run that failed past its clone
NextRetry ==
  \/ NextInitStart
  \/ Rerun

SpecRetry == InitStart /\ [][NextRetry]_vars

\* cleanup alone, from its prompt on
\* cleanup's task list never rejects: fs.rm is wrapped, the destroy results
\* are not looked at
NextCleanup ==
  \/ \E confirmed \in BOOLEAN : CleanPrompt(confirmed)
  \/ \E given \in BOOLEAN, how \in CleanupHows, listing \in OrgListings :
        CleanOrg(given, how, listing)
  \/ \E kind \in ScanKinds, how \in CleanupHows : ScanDone(kind, how)
  \/ \E t \in 1..STigris : StartStep(t)
  \/ \E rmOk \in BOOLEAN : CleanLocal(rmOk)
  \/ \E t \in SApps..STigris :
        \E outs \in [1..Len(Targets(t)) -> CleanupOutcomes] : CleanDestroy(t, outs)
  \/ \E r \in FlyOutcomes : CommandResolved(r)
  \/ CliCatch
  \/ CliReturn

SpecCleanup == CleanupStart /\ [][NextCleanup]_vars

TypeOK ==
  /\ runState \in {"running", "ok", "failed"}
  /\ taskState \in [Tasks -> TaskStates]
  /\ DOMAIN ctx = CtxFields
  /\ pgpc \in {"idle", "create", "settle", "list", "attach", "status", "done", "failed"}
  /\ i \in 0..(maxRetries + 1)
  /\ clusterReady \in BOOLEAN
  /\ clusterId \in {"", "c1", "c2", "c3"}
  /\ localDir \in BOOLEAN
  /\ files \subseteq {ConfigFile, EnvFile}
  /\ exitCode \in {StillRunning, 0, 1}
  /\ pre \subseteq ResourceNames \cup {OtherApp, ForeignApp, WelfareDb}
  /\ stage \in {"none", "prompt", "cancelled", "org", "noorgs", "scan", "aborted",
                 "validate", "exists", "cli", "auth", "org-init", "tasks",
                 "path", "service", "app", "stream", "streamed", "noapp"}
  /\ flyCalls \in Nat
  /\ command \in Commands \cup {"none", "logs"}

\* ================================================================= claims

\* C1: the pipeline aborts at the first failing task: once a task has failed,
\* no later task's action is ever invoked (every later task stays pending)
\* and every earlier task had completed.
C1_AbortsAtFirstFailure ==
  \A t \in Tasks :
     taskState[t] = "failed" =>
        /\ \A u \in Tasks : u > t => taskState[u] = "pending"
        /\ \A u \in Tasks : u < t => taskState[u] = "done"

C1_Witness ==
  /\ runState = "failed"
  /\ taskState[TInstall] = "failed"
  /\ taskState[TClone] = "done"
  /\ taskState[TPrisma] = "pending"

\* C2: the pipeline is strictly sequential: at most one task action is in
\* progress, and a task has begun only if every earlier task has completed.
C2_StrictlySequential ==
  /\ Cardinality({t \in Tasks : taskState[t] = "running"}) <= 1
  /\ \A t \in Tasks :
        taskState[t] # "pending" => \A u \in 1..(t - 1) : Settled(u)

C2_Witness ==
  /\ taskState[TPostgres] = "running"
  /\ pgpc = "list" /\ i > 1
  /\ \A t \in Tasks : t > TPostgres => taskState[t] = "pending"

\* C3: no rollback: no step of the run, the abort included, removes a remote
\* resource, so what the tasks created still exists after the abort.
C3_NoRollback == [][remote \subseteq remote']_vars

C3_Witness ==
  /\ runState = "failed"
  /\ taskState[TPostgres] = "failed"
  /\ {FlyAppName, RedisName(FlyAppName), TigrisName(FlyAppName),
      DbName(FlyAppName)} \subseteq remote

\* C4: once a status query has shown 'ready' at attempt k, polling is over
\* with success: exactly k queries were issued and no timeout is raised.
C4_ReadyStopsPolling ==
  readyAt # 0 =>
     /\ queries = readyAt
     /\ pgpc # "list"
     /\ err.kind # "NotReady"

C4_Witness == readyAt = 3 /\ pgpc = "attach"

\* C5: a status query that shows the status 'failed' ends polling with a
\* failure at that attempt.
C5_FailedStopsPolling == lastStatus = "failed" => pgpc = "failed"

\* C6 (as claimed): a status query that failed in any way on an attempt
\* k < maxRetries is followed by attempt k+1.
C6_AnyQueryFailureTolerated ==
  (lastQuery \in {"exit", "raise"} /\ queries < 20) => pgpc = "list"

\* C6 (amended): a status query that exits non-zero on an attempt
\* k < maxRetries is followed by attempt k+1, and a 'ready' seen after such
\* a failure still ends polling with success.
C6_ExitFailureTolerated ==
  /\ (lastQuery = "exit" /\ queries < 20) => pgpc = "list"
  /\ ([phase |-> "poll", how |-> "exit"] \in callFailed /\ readyAt # 0) =>
        (pgpc \in {"attach", "status", "done"}
           \/ (pgpc = "failed" /\ err.kind \in {"AttachFailed", "SpawnError"}))

C6_Witness ==
  /\ [phase |-> "poll", how |-> "exit"] \in callFailed
  /\ readyAt > 1
  /\ pgpc = "done"

C8_PollingBounded ==
  /\ queries <= 20
  /\ queries = 20 => pgpc # "list"
  /\ slept <= 20 * 3000 + 5000

C8_Witness == queries = 20 /\ pgpc = "failed" /\ slept = 19 * 3000 + 5000

\* C9: provisionPostgres returns only if no phase's external call failed
\* (exited non-zero or could not be started).
C9_FailedCallFailsProvisioning ==
  pgpc = "done" => \A c \in callFailed : c.how \notin {"exit", "raise"}

C10_Documented(t) ==
  IF t = TClone THEN {"casinoPath"}
  ELSE IF t = TRedis THEN {"redisUrl"}
  ELSE IF t = TTigris THEN {"tigrisBucket"}
  ELSE IF t = TPostgres THEN {"postgresUrl", "databasePassword", "postgresPassword"}
  ELSE {}

Populated(f) == f \in DOMAIN ctx /\ ctx[f] \notin {Undefined, Empty}

\* C11: the fields of the Context are write-once: a field that holds a value
\* keeps that value through every later step of the run.
C11_WriteOnce ==
  [][\A f \in CtxFields : ctx[f] # Undefined => ctx'[f] = ctx[f]]_vars

C11_Witness ==
  /\ taskState[TDeploy] = "done"
  /\ \A f \in CtxFields : ctx[f] # Undefined

\* C12: after a run in which every step succeeded the Context holds the
\* database URL, the cache URL, the storage bucket name and the storage
\* credentials.
C12_AllDescriptorsPopulated ==
  runState = "ok" =>
     /\ Populated("postgresUrl")
     /\ Populated("redisUrl")
     /\ Populated("tigrisBucket")
     /\ Populated("tigrisCredentials")

\* C13: a database that is not 'ready' within the 20 status queries aborts
\* the pipeline in the Postgres task with the timeout error; the cache URL
\* and the storage bucket stay in the Context, and neither the configuration
\* files, nor the secrets, nor the deployment step runs.
C13_TimeoutAbortsAtPostgres ==
  /\ (taskState[TPostgres] \in {"running", "done", "failed"} /\ pgpc # "list"
        /\ queries = 20 /\ readyAt = 0 /\ lastQuery # "raise")
        => (taskState[TPostgres] = "failed" /\ err.task = TPostgres
              /\ err.kind = "NotReady")
  /\ (err.task = TPostgres /\ err.kind = "NotReady") =>
        /\ taskState[TPostgres] = "failed"
        /\ runState \in {"running", "failed"}
        /\ \A u \in Tasks : u > TPostgres => taskState[u] = "pending"
        /\ Populated("redisUrl") /\ Populated("tigrisBucket")
        /\ ~Populated("postgresUrl")
        /\ files = {} /\ appSecrets = {} /\ lastBatch = << >>

C13_Witness ==
  /\ exitCode = 1
  /\ err.task = TPostgres /\ err.kind = "NotReady"
  /\ Populated("redisUrl") /\ Populated("tigrisBucket")
  /\ taskState[TConfig] = "pending"

\* the task whose operation the message of an error names; 0: none
C14_Named(kind) ==
  CASE kind \in {"AlreadyExists", "GitStart", "CloneFailed"} -> TClone
    [] kind = "InstallFailed" -> TInstall
    [] kind = "PrismaFailed" -> TPrisma
    [] kind = "BuildFailed" -> TBuild
    [] kind = "CreateAppFailed" -> TApp
    [] kind = "RedisFailed" -> TRedis
    [] kind = "TigrisFailed" -> TTigris
    [] kind \in {"CreateFailed", "NotReady", "AttachFailed"} -> TPostgres
    [] kind = "SecretsFailed" -> TSecrets
    [] kind = "DeployFailed" -> TDeploy
    [] OTHER -> 0

C15_FailedSome ==
  \/ \E t \in Tasks : taskState[t] = "failed"
  \/ \E t \in DOMAIN stepState : stepState[t] = "failed"

C15_Complete ==
  IF command = "init"
    THEN \A t \in Tasks : taskState[t] = "done"
    ELSE \A t \in DOMAIN stepState : stepState[t] \in {"done", "skipped"}

\* C15: a command (init, deploy, cleanup) one of whose pipeline tasks failed
\* never ends with exit code 0: its process ends with 1; and a process that
\* ends with a non-zero code after its pipeline completed does so for an
\* error raised after the pipeline, not by a task.
C15_FailureExitsNonZero ==
  /\ C15_FailedSome => (runState # "ok" /\ exitCode \in {StillRunning, 1})
  /\ (runState = "failed" /\ exitCode # StillRunning) => exitCode = 1
  /\ exitCode = 0 => (C15_Complete /\ runState = "ok")
  /\ (exitCode = 1 /\ ~C15_FailedSome) => (C15_Complete /\ err.task = 0)

C15_Witness ==
  /\ command = "deploy"
  /\ stepState[SBuild] = "failed" /\ stepState[SDeploy] = "pending"
  /\ exitCode = 1

\* the value the stored secrets hold under a key
C16_Held(k) == {p.value : p \in {q \in appSecrets : q.key = k}}

C17_NamesDeterministicDistinct ==
  \A x \in named : \A y \in named :
     /\ x.kind = y.kind => x.name = y.name
     /\ x.kind # y.kind => x.name # y.name
     /\ x.name = generateFlyAppName(casino) \o
            (IF x.kind = "postgres" THEN <<"-db">>
             ELSE IF x.kind = "redis" THEN <<"-redis">> ELSE <<"-storage">>)

C17_Witness ==
  /\ casino = CasinoName \o <<"-db">>
  /\ Cardinality(named) = 6

\* C18: a create step for a name that already exists on the platform fails
\* (and with it the pipeline): no create task completes for a name that
\* existed before the run.
C18_ExistingNameFails ==
  /\ taskState[TApp] = "done" => FlyAppName \notin pre
  /\ taskState[TRedis] = "done" => RedisName(FlyAppName) \notin pre
  /\ taskState[TTigris] = "done" => TigrisName(FlyAppName) \notin pre
  /\ taskState[TPostgres] = "done" => DbName(FlyAppName) \notin pre

\* C19: a subprocess call counts as successful for its caller exactly if the
\* process exited with code 0: after a create or attach call that ended in
\* any other way (non-zero code, signal, failure to start) provisionPostgres
\* has failed.
C19_OnlyExitZeroSucceeds ==
  \A c \in callFailed : c.phase \in {"create", "attach"} => pgpc = "failed"

C21_DeployMigratesFirst ==
  (command = "deploy" /\ stepState[SDeploy] # "pending") =>
     (migrated /\ stepState[SBuild] = "done")

\* C22: init runs the database migrations after the secrets are set and
\* before the production deploy: its deploy task never starts before the
\* migrations have run.
C22_InitMigratesFirst ==
  (command = "init" /\ taskState[TDeploy] # "pending") =>
     (migrated /\ taskState[TSecrets] = "done")

\* the fare resources among a set of names
C23_Fare(names) == {n \in names : StartsWith(n, <<"fare-">>)}

\* C23: whenever cleanup reports 'Cleanup complete', every fare- app,
\* fare-*-db cluster, fare-*-redis instance and fare-*-storage bucket that
\* existed when cleanup started has been destroyed.
C23_CompleteMeansDestroyed ==
  (command = "cleanup" /\ stage = "tasks" /\ runState = "ok") =>
     C23_Fare(pre) \cap remote = {}

\* C24: if the user does not confirm the cleanup prompt, cleanup deletes
\* nothing: from the answer on, the local directory and the platform's
\* resources stay as they were, no task starts and no fly command, scan or
\* destroy, has been issued.
C24_DeclinedDeletesNothing ==
  [][(checks'.confirmed = "no") =>
        /\ flyCalls' = 0
        /\ localDir' = localDir
        /\ remote' = remote
        /\ stepState' = stepState]_vars

C24_Witness ==
  /\ command = "cleanup" /\ checks.confirmed = "no" /\ stage = "cancelled"
  /\ localDir /\ C23_Fare(remote) # {} /\ remote = pre
  /\ exitCode = ExitOnReturn

\* C29: the four resource scans of cleanup run concurrently; the deletions
\* that depend on them start only after all four have completed, and when a
\* scan has failed the command does not go on with what the others found.
C29_NoPartialResults ==
  (command = "cleanup" /\ \E t \in DOMAIN stepState : stepState[t] # "pending") =>
     \A k \in ScanKinds : scan[k] = "ok"

\* C25: no init task executes and no remote resource is created unless,
\* beforehand, the casino name passed validation, no local directory of that
\* name existed, the Fly CLI was found or installed, and the most recent
\* authentication check succeeded.
C25_TasksNeedChecks ==
  command = "init" =>
     /\ stage # "tasks" =>
           /\ \A t \in Tasks : taskState[t] = "pending"
           /\ remote = pre
     /\ stage = "tasks" =>
           /\ checks.valid = "yes" /\ checks.free = "yes"
           /\ checks.cli = "yes" /\ checks.auth = "yes"

C25_Witness ==
  /\ command = "init" /\ checks = ChecksPassed
  /\ taskState[TApp] = "done"
  /\ FlyAppName \in remote \ pre

\* the value the last setSecrets batch holds under a key
C26_Sent(key) ==
  {lastBatch[n].value : n \in {m \in DOMAIN lastBatch : lastBatch[m].key = key}}

\* C26: in every init run the Fly app is created before any add-on; Redis,
\* Tigris and Postgres have all been provisioned successfully before the
\* secrets are set, so that DATABASE_URL and REDIS_URL are defined when they
\* are sent; and the deploy starts only after the secrets were set.
C26_ProvisionedBeforeSecrets ==
  command = "init" =>
     /\ \A t \in {TRedis, TTigris, TPostgres} :
           taskState[t] # "pending" =>
              taskState[TApp] = "done" /\ FlyAppName \in remote
     /\ (taskState[TSecrets] # "pending" \/ lastBatch # << >>) =>
           /\ \A t \in {TRedis, TTigris, TPostgres} : taskState[t] = "done"
           /\ {RedisName(FlyAppName), TigrisName(FlyAppName), DbName(FlyAppName)}
                 \subseteq remote
     /\ lastBatch # << >> =>
           \A key \in {"DATABASE_URL", "REDIS_URL"} :
              C26_Sent(key) # {} /\ C26_Sent(key) \cap {Undefined, Empty} = {}
     /\ taskState[TDeploy] # "pending" =>
           taskState[TSecrets] = "done" /\ appSecrets # {}

\* C27: provisionPostgres goes create, settle, poll, attach, extract: the
\* polling starts after the settle delay; attach is issued only after a
\* status query of this call showed 'ready', with the cluster id read from
\* that same query; and the descriptor's status query is issued only after
\* attach succeeded.
C27_PostgresPhases ==
  /\ pgpc \in {"list", "attach", "status", "done"} =>
        slept >= SettleMs
  /\ pgpc \in {"attach", "status", "done"} =>
        /\ queries >= 1 /\ readyAt = queries
        /\ lastStatus = "ready" /\ lastQuery = "ok"
        /\ clusterId # "" /\ clusterId = lastId
  /\ pgpc \in {"status", "done"} =>
        \A c \in callFailed : c.phase # "attach"

\* the lookups that precede the mutation of each function, in order
C28_Needs(fn) ==
  IF fn = "createFlyApp" THEN <<"org">>
  ELSE IF fn = "setSecrets" THEN <<"app">>
  ELSE <<"org", "app">>

C28_Task(fn) ==
  IF fn = "createFlyApp" THEN TApp
  ELSE IF fn = "provisionRedis" THEN TRedis
  ELSE IF fn = "provisionTigris" THEN TTigris
  ELSE TSecrets

\* C28: createFlyApp, provisionRedis, provisionTigris and setSecrets issue
\* their mutating call only after every preceding lookup (organization by
\* slug, app by name) succeeded and found the entity; when a lookup fails or
\* finds nothing, no mutating call is issued and the operation fails.
C28_MutationNeedsLookups ==
  /\ mutationSent =>
        /\ lookedUp # << >>
        /\ [n \in DOMAIN lookedUp |-> lookedUp[n].what] = C28_Needs(lookedUp[1].fn)
        /\ \A n \in DOMAIN lookedUp : lookedUp[n].how = "found"
  /\ \A n \in DOMAIN lookedUp :
        lookedUp[n].how # "found" =>
           /\ ~mutationSent
           /\ n = Len(lookedUp)
           /\ taskState[C28_Task(lookedUp[n].fn)] = "failed"
           /\ lookedUp[n].fn = "setSecrets" => lastBatch = << >> /\ appSecrets = {}

C28_Witness ==
  /\ lookedUp = <<OrgLookup("provisionTigris", "found"),
                  AppLookup("provisionTigris", "missing")>>
  /\ ~mutationSent
  /\ taskState[TTigris] = "failed"
  /\ TigrisName(FlyAppName) \notin remote

\* C30: buildProject builds packages/utils, packages/db, packages/solana,
\* apps/api, apps/ws, apps/processor in that order and stops at the first
\* failing build: no later package is built after a failure, and the deploy
\* step that follows never runs after a failed build.
C30_StopsAtFirstFailedBuild ==
  command = "deploy" =>
     /\ \A k \in DOMAIN built : built[k].pkg = BuildOrder[k]
     /\ \A k \in DOMAIN built :
           built[k].how # "ok" => k = Len(built) /\ stepState[SBuild] = "failed"
     /\ stepState[SDeploy] # "pending" =>
           /\ Len(built) = Len(BuildOrder)
           /\ \A k \in DOMAIN built : built[k].how = "ok"

\* the command has issued `fly logs`
C31_Streamed == \E n \in DOMAIN trail : trail[n] \in {"logs", "logs --process"}

\* C31: the logs command streams only when the process name is absent or one
\* of api, ws, processor, and only after the authentication check and then
\* the lookup of the app both passed; with any other process name the command
\* fails before it issues a remote call.
C31_StreamsOnlyWhenChecked ==
  /\ C31_Streamed =>
       /\ ~Given(service) \/ service \in VALID_PROCESSES
       /\ checks.auth = "yes"
       /\ lookedUp = <<"found">>
       /\ trail[1] = "fly auth whoami"
       /\ trail[Len(trail) - 1] = "GetApp"
       /\ \A n \in 1..(Len(trail) - 1) : trail[n] \notin {"logs", "logs --process"}
  /\ (Given(service) /\ service \notin VALID_PROCESSES) =>
       /\ trail = << >>
       /\ stage = "aborted" => err.kind \in {"NotInCasino", "InvalidProcess"}
       /\ stage \in {"path", "service", "aborted"}

C31_Witness ==
  /\ service = "ws"
  /\ stage = "streamed"
  /\ trail = <<"fly auth whoami", "flyctl auth whoami", "GetApp", "logs --process">>

C31_WitnessRejected ==
  /\ service = "web"
  /\ err.kind = "InvalidProcess"
  /\ exitCode = 1

\* C32 as stated: once an invocation of cloneCasinoBackend that ran alone has
\* failed because git ended with a non-zero code (or by a signal), the
\* casino's directory does not exist, so casinoExists answers false.
C32_FailedCloneLeavesNothing ==
  (Len(cloners) = 1 /\ cloners[1].pc = "failed") => ~casinoExists(localDir)

\* C32: an invocation of cloneCasinoBackend that ran alone and failed because
\* git did not exit with 0 has called fs.rm on the casino's directory before
\* it rejected; casinoExists answers false afterwards unless that removal
\* threw, which the function ignores.
C32_FailedCloneRemovesOrIgnores ==
  (Len(cloners) = 1 /\ cloners[1].pc = "failed") =>
     /\ cloners[1].rm \in {"ok", "threw"}
     /\ cloners[1].rm = "ok" => ~casinoExists(localDir)

C32_Witness ==
  /\ Len(cloners) = 1
  /\ cloners[1] = [pc |-> "failed", how |-> "exit", rm |-> "ok"]
  /\ ~localDir

\* C33: validateCasinoName accepts a name if and only if the name consists
\* only of lowercase letters, digits and hyphens, does not start or end with
\* a hyphen, and has at least 3 and less than 30 characters.
C33_AcceptsExactlyValidNames ==
  verdict # "?" =>
     (verdict = "ok" <=>
        /\ \A k \in DOMAIN casino : casino[k] \in {"a", "7", "-"}
        /\ Len(casino) >= 3
        /\ Len(casino) < 30
        /\ casino[1] # "-"
        /\ casino[Len(casino)] # "-")

\* C34: the cluster ID passed to `fly mpg attach` is the ID of the cluster
\* whose name equals <app>-db, also when the listing holds other clusters
\* whose row contains that name as a substring.
C34_AttachesOwnCluster ==
  pgpc \in {"attach", "status"} =>
     \A row \in Rows : row.id = clusterId => row.name = DbName(FlyAppName)

\* the connection strings the platform hands out
C35_FromPlatform ==
  {b.uri : b \in {s \in StatusBodies : s.uri # Empty}} \cup (PublicUrls \ {Empty})

\* C35: the DATABASE_URL and REDIS_URL sent to the platform as secrets are
\* connection strings the platform returned for the provisioned resources,
\* never a default or placeholder made up locally.
C35_SecretsFromPlatform ==
  \A n \in DOMAIN lastBatch :
     lastBatch[n].key \in {"DATABASE_URL", "REDIS_URL"} =>
        lastBatch[n].value \in C35_FromPlatform

\* C36: cloneCasinoBackend deletes the casino's directory only if this
\* invocation created it: with two invocations for one name running together,
\* the cleanup of the one whose clone failed never removes the directory the
\* other one's git made.
C36_RemovesOnlyOwnDirectory ==
  [][(localDir /\ ~localDir') =>
       \E n \in DOMAIN cloners :
          /\ cloners[n].pc = "cleanup" /\ cloners'[n].pc = "failed"
          /\ madeBy = n]_vars

\* C37: after init has failed in a task that follows a successful clone, the
\* casino's directory still exists, and an init started again with the same
\* name is rejected by the existence check before any task of the pipeline
\* runs.
C37_FailedRunBlocksRetry ==
  /\ (command = "init" /\ runState = "failed" /\ taskState[TClone] = "done") =>
        localDir
  /\ rerun =>
        /\ localDir
        /\ \A t \in Tasks : taskState[t] = "pending"
        /\ stage \in {"exists", "aborted"}
        /\ stage = "aborted" => (err.kind = "AlreadyExists" /\ checks.free = "no")

C37_Witness ==
  /\ rerun
  /\ err.kind = "AlreadyExists"
  /\ exitCode = 1
  /\ remote # {}

\* C38: when every task of the init pipeline has succeeded, init reports
\* success and returns normally; 'Initialization failed' is reported, and the
\* run ends in failure, only when some task of the pipeline failed.
C38_FailsOnlyWhenATaskFailed ==
  (command = "init" /\ stage = "tasks") =>
     /\ runState = "failed" => \E t \in Tasks : taskState[t] = "failed"
     /\ exitCode = 1 => \E t \in Tasks : taskState[t] = "failed"

\* name.endsWith(suffix) on token sequences
C39_EndsWith(name, suffix) ==
  Len(name) >= Len(suffix) /\
  SubSeq(name, Len(name) - Len(suffix) + 1, Len(name)) = suffix

\* fare-* for an app, fare-*-db, fare-*-redis, fare-*-storage for the others
C39_FareNamed(kind, name) ==
  /\ StartsWith(name, <<"fare-">>)
  /\ kind = "clusters" => C39_EndsWith(name, <<"-db">>)
  /\ kind = "redis" => C39_EndsWith(name, <<"-redis">>)
  /\ kind = "tigris" => C39_EndsWith(name, <<"-storage">>)

\* C39: cleanup destroys only fare resources: every app it destroys has a
\* name starting with fare-, every cluster, Redis instance and bucket it
\* destroys a name of the form fare-*-db, fare-*-redis, fare-*-storage, and
\* nothing else on the platform is destroyed.
C39_DestroysOnlyFareResources ==
  command = "cleanup" =>
     \A kind \in ScanKinds : \A name \in Elements(Listed(kind)) :
        name \in pre \ remote => C39_FareNamed(kind, name)

\* C40: every cleanup run that the user confirmed and that returns without
\* raising an error has removed the directory of the local casinos.
C40_ConfirmedRunRemovesLocal ==
  (command = "cleanup" /\ checks.confirmed = "yes" /\ runState = "ok") => ~localDir

====
